---- MODULE Spec2Model ----
(***************************************************************************)
(* CareerSightAI: the corpus normalizer (utils/data_processor.py) and the   *)
(* recommendation engine (utils/recommendation_engine.py).                  *)
(*                                                                         *)
(* Conventions of the model                                                *)
(*   - a Python str is a sequence of one-character strings, so that         *)
(*     lower(), `in`, split and the regular expressions act on characters;  *)
(*   - a missing text cell (None / NaN) is NA;                              *)
(*   - a numeric cell is <<v>>, a missing one (None / NaN) is <<>>, and     *)
(*     every comparison with a missing number is FALSE, as with NaN;        *)
(*   - salaries are counted in hundredths of a lakh, so that v * 1.2 is     *)
(*     exact for inputs with up to one decimal digit;                       *)
(*   - TF-IDF weights and cosine similarities are fixed-point numbers      *)
(*     (idf in tenths, normalised weights and similarities in multiples of *)
(*     2^-Precision) rounded to nearest at every division and square root, *)
(*     where the library rounds IEEE doubles;                              *)
(*   - record constructors name their fields in one fixed order.           *)
(***************************************************************************)
EXTENDS Integers, Sequences, FiniteSets

VARIABLES
    caller_df,          \* the DataFrame handed to RecommendationEngine(...)
    jobs_df,            \* self.jobs_df
    tfidf_vectorizer,   \* self.tfidf_vectorizer
    job_vectors,        \* self.job_vectors
    argsort_ties,       \* how this build's argsort orders equal keys
    python_build,       \* what the interpreter running the engine leaves open
    threads,            \* the calls running side by side on the engine
    pc,                 \* where the caller is
    call,               \* the arguments of the call in progress
    ret,                \* what the call returned
    ncalls,             \* how many calls the caller has made
    constructed         \* history: the engine as __init__ left it

vars == <<caller_df, jobs_df, tfidf_vectorizer, job_vectors, argsort_ties,
          python_build, threads, pc, call, ret, ncalls, constructed>>

(***************************************************************************)
(* Bounds                                                                  *)
(***************************************************************************)
MaxJobs == 3

\* the value of call while no operation is running
NoCall == [op |-> "none"]

(***************************************************************************)
(* Python values                                                           *)
(***************************************************************************)
NA == <<"NaN">>
NoNum == <<>>
Num(v) == <<v>>
IsNum(x) == x # NoNum
Lakh(n) == n * 100

\* a >= b on float cells: False when either side is NaN
NumGe(a, b) == IsNum(a) /\ IsNum(b) /\ a[1] >= b[1]
NumLe(a, b) == IsNum(a) /\ IsNum(b) /\ a[1] <= b[1]

UpperChars == <<"A","B","C","D","E","F","G","H","I","J","K","L","M",
                "N","O","P","Q","R","S","T","U","V","W","X","Y","Z">>
LowerChars == <<"a","b","c","d","e","f","g","h","i","j","k","l","m",
                "n","o","p","q","r","s","t","u","v","w","x","y","z">>
DigitChars == <<"0","1","2","3","4","5","6","7","8","9">>

Range(s) == {s[i] : i \in DOMAIN s}
UpperSet == Range(UpperChars)
LowerSet == Range(LowerChars)
DigitSet == Range(DigitChars)
IsUpper(c) == c \in UpperSet
IsLower(c) == c \in LowerSet
IsDigit(c) == c \in DigitSet
IndexOf(s, c) == CHOOSE i \in DOMAIN s : s[i] = c
ToLower == [c \in UpperSet |-> LowerChars[IndexOf(UpperChars, c)]]
ToUpper == [c \in LowerSet |-> UpperChars[IndexOf(LowerChars, c)]]

LowerChar(c) == IF IsUpper(c) THEN ToLower[c] ELSE c
UpperChar(c) == IF IsLower(c) THEN ToUpper[c] ELSE c

\* the sequence f as an explicit tuple
Tuple(f) == SubSeq(f, 1, Len(f))

\* str.lower()
Lower(s) == Tuple([i \in 1..Len(s) |-> LowerChar(s[i])])

\* sub in s
Contains(s, sub) ==
    \E i \in 0..(Len(s) - Len(sub)) : SubSeq(s, i + 1, i + Len(sub)) = sub

\* Series.str.contains(pat, case=False, na=False), pat without metacharacters
StrContainsNoCase(cell, pat) ==
    cell # NA /\ Contains(Lower(cell), Lower(pat))

\* str(x) of a cell: str(nan) is 'nan'
StrOf(cell) == IF cell = NA THEN <<"n","a","n">> ELSE cell

\* sep.join(parts)
RECURSIVE Join(_, _)
Join(parts, sep) ==
    IF Len(parts) = 0 THEN <<>>
    ELSE IF Len(parts) = 1 THEN parts[1]
    ELSE parts[1] \o sep \o Join(Tail(parts), sep)

\* the row with one more (or one replaced) column
WithColumn(row, name, v) ==
    [f \in (DOMAIN row) \cup {name} |-> IF f = name THEN v ELSE row[f]]

\* df[mask]: the rows whose mask entry is True, in order
RECURSIVE BoolIndex(_, _)
BoolIndex(df, mask) ==
    IF Len(df) = 0 THEN <<>>
    ELSE (IF mask[1] THEN <<df[1]>> ELSE <<>>) \o BoolIndex(Tail(df), Tail(mask))

(***************************************************************************)
(* The corpora the engine is built from                                    *)
(***************************************************************************)
Job1 == [job_title   |-> <<"D","a","t","a"," ","D","e","v">>,
         skills      |-> <<"S","q","l",","," ","P","y","t","h","o","n">>,
         company     |-> <<"I","b","m">>,
         description |-> NA,
         location    |-> <<"B","a","n","g","a","l","o","r","e">>,
         exp_min     |-> Num(3),  exp_max |-> Num(5),
         salary_min  |-> Num(Lakh(10)), salary_max |-> Num(Lakh(20))]

Job2 == [job_title   |-> <<"W","e","b"," ","D","e","v">>,
         skills      |-> <<"S","q","l",","," ","J","a","v","a">>,
         company     |-> NA,
         description |-> NA,
         location    |-> <<"R","e","m","o","t","e">>,
         exp_min     |-> Num(0),  exp_max |-> Num(2),
         salary_min  |-> Num(Lakh(25)), salary_max |-> Num(Lakh(40))]

\* the same text as Job1: equal scores for every query
Job3 == [job_title   |-> <<"D","a","t","a"," ","D","e","v">>,
         skills      |-> <<"S","q","l",","," ","P","y","t","h","o","n">>,
         company     |-> <<"I","b","m">>,
         description |-> NA,
         location    |-> <<"M","u","m","b","a","i">>,
         exp_min     |-> Num(8),  exp_max |-> Num(12),
         salary_min  |-> NoNum, salary_max |-> NoNum]

Job4 == [job_title   |-> <<"M","l"," ","L","e","a","d">>,
         skills      |-> <<"P","y","t","h","o","n">>,
         company     |-> NA,
         description |-> <<"o","f"," ","t","h","e"," ","t","e","a","m">>,
         location    |-> <<"r","e","m","o","t","e"," ","-"," ","i","n","d","i","a">>,
         exp_min     |-> NoNum,  exp_max |-> NoNum,
         salary_min  |-> Num(Lakh(18)), salary_max |-> Num(Lakh(22))]

JobPool == {Job1, Job2, Job3, Job4}

\* a DataFrame: rows in order, each carrying its index label
Frame(jobs) == [i \in 1..Len(jobs) |-> WithColumn(jobs[i], "index", i - 1)]

Injective(s) == \A i, j \in DOMAIN s : s[i] = s[j] => i = j

Corpora ==
    {Frame(js) : js \in {s \in UNION {[1..n -> JobPool] : n \in 1..MaxJobs} : Injective(s)}}

(***************************************************************************)
(* TfidfVectorizer(stop_words='english', ngram_range=(1, 2),               *)
(*                 lowercase=True, max_features=5000)                      *)
(* max_features is never reached by the corpora above and is not modelled. *)
(***************************************************************************)
\* \w of the token pattern
IsWordChar(c) == IsUpper(c) \/ IsLower(c) \/ IsDigit(c) \/ c = "_"

\* token_pattern (?u)\b\w\w+\b : maximal runs of word characters, two or more
RECURSIVE TokensFrom(_, _, _)
TokensFrom(s, i, cur) ==
    LET done == IF Len(cur) >= 2 THEN <<cur>> ELSE <<>>
    IN  IF i > Len(s) THEN done
        ELSE IF IsWordChar(s[i]) THEN TokensFrom(s, i + 1, Append(cur, s[i]))
        ELSE done \o TokensFrom(s, i + 1, <<>>)

\* the members of sklearn's ENGLISH_STOP_WORDS that the texts here can hold
StopWords == {<<"o","f">>, <<"t","h","e">>, <<"a","n","d">>, <<"i","n">>,
              <<"w","i","t","h">>, <<"f","o","r">>, <<"t","o">>, <<"g","o">>}

RECURSIVE DropStopWords(_)
DropStopWords(toks) ==
    IF Len(toks) = 0 THEN <<>>
    ELSE (IF toks[1] \in StopWords THEN <<>> ELSE <<toks[1]>>) \o DropStopWords(Tail(toks))

\* unigrams, then bigrams joined by one space
NGrams(toks) ==
    toks \o [i \in 1..(Len(toks) - 1) |-> toks[i] \o <<" ">> \o toks[i + 1]]

\* build_analyzer(): lowercase, tokenize, drop stop words, n-grams
Analyze(text) == NGrams(DropStopWords(TokensFrom(Lower(text), 1, <<>>)))

Count(terms, t) == Cardinality({i \in DOMAIN terms : terms[i] = t})

\* round(10 * ln k), k = 1..8
LnDeci == <<0, 7, 11, 14, 16, 18, 19, 21>>

\* smooth idf, ln((1 + n) / (1 + df)) + 1, in tenths
Idf(n, df) == 10 + LnDeci[1 + n] - LnDeci[1 + df]

NoVectorizer == [fitted |-> FALSE, vocabulary |-> {}, idf |-> <<>>]

\* the document frequency of term t
DocFreq(termSets, t) == Cardinality({i \in DOMAIN termSets : t \in termSets[i]})

FitVocabulary(termSets, vocab) ==
    [fitted |-> TRUE, vocabulary |-> vocab,
     idf |-> [t \in vocab |-> Idf(Len(termSets), DocFreq(termSets, t))]]

FitTerms(termSets) ==
    FitVocabulary(termSets, UNION {termSets[i] : i \in DOMAIN termSets})

\* fit: the vocabulary and the idf of each term
Fit(docs) == FitTerms(Tuple([i \in 1..Len(docs) |-> Range(Analyze(docs[i]))]))

TransformTerms(vec, terms) ==
    [t \in vec.vocabulary |-> Count(terms, t) * vec.idf[t]]

\* Floating-point values are carried as multiples of 2^-Precision, and every
\* division and square root rounds to the nearest multiple, as binary64
\* rounds to the nearest of its values (there with 53 bits).
Precision == 11

\* 1.0
One == 2^Precision

\* a / b rounded to the nearest integer (a >= 0, b > 0)
RoundDiv(a, b) == (2 * a + b) \div (2 * b)

RECURSIVE ISqrtBetween(_, _, _)
ISqrtBetween(x, lo, hi) ==
    IF lo >= hi THEN lo
    ELSE LET mid == (lo + hi + 1) \div 2
         IN  IF mid * mid <= x THEN ISqrtBetween(x, mid, hi)
             ELSE ISqrtBetween(x, lo, mid - 1)

\* floor(sqrt(x)) for 0 <= x < 2^31
ISqrt(x) == ISqrtBetween(x, 0, 46340)

RoundUpIf(r, up) == IF up THEN r + 1 ELSE r

\* sqrt(x) rounded to the nearest integer
RoundSqrtFrom(x, r) == RoundUpIf(r, x - r * r > r)

RoundSqrt(x) == RoundSqrtFrom(x, ISqrt(x))

RECURSIVE Dot(_, _, _)
Dot(u, v, ts) ==
    IF ts = {} THEN 0
    ELSE LET t == CHOOSE x \in ts : TRUE
         IN  u[t] * v[t] + Dot(u, v, ts \ {t})

\* the terms with a non-zero weight (the entries a sparse row stores)
Support(u) == {t \in DOMAIN u : u[t] # 0}

SumOfSquares(u) == Dot(u, u, Support(u))

\* the row divided by its norm; a zero row is left alone
DivideByNorm(u, norm) ==
    IF norm = 0 THEN u ELSE [t \in DOMAIN u |-> RoundDiv(One * u[t], norm)]

\* sklearn.preprocessing.normalize(norm='l2') on one row
Normalize(u) == DivideByNorm(u, RoundSqrt(SumOfSquares(u)))

\* transform: tf * idf over the fitted vocabulary (terms outside it are
\* dropped), then norm='l2'
Transform(vec, text) == Normalize(TransformTerms(vec, Analyze(text)))

DotOfRows(un, vn) == RoundDiv(Dot(un, vn, Support(un)), One)

\* the cosine distance 1 - similarity in place of the similarity
CosineDistance(u, v) == One - DotOfRows(Normalize(u), Normalize(v))

\* cosine_similarity(u, v): both rows normalised again, then their dot product
CosineSimilarity(u, v) == DotOfRows(Normalize(u), Normalize(v))

(***************************************************************************)
(* RecommendationEngine.__init__ and _prepare_data                         *)
(***************************************************************************)
\* str * 2
Twice(s) == s \o s

CombineJobFeatures(row) ==
    LET title   == IF row.job_title # NA THEN <<Twice(StrOf(row.job_title))>> ELSE <<>>
        skills  == IF row.skills # NA THEN <<StrOf(row.skills)>> ELSE <<>>
        company == IF row.company # NA THEN <<StrOf(row.company)>> ELSE <<>>
        descr   == IF row.description # NA THEN <<StrOf(row.description)>> ELSE <<>>
    IN  Join(title \o skills \o company \o descr, <<" ">>)

PrepareFrame(df) ==
    [i \in 1..Len(df) |-> WithColumn(df[i], "combined_text", CombineJobFeatures(df[i]))]

CombinedTexts(df) == [i \in 1..Len(df) |-> df[i].combined_text]

JobVectors(vec, df) == [i \in 1..Len(df) |-> Transform(vec, df[i].combined_text)]

EngineInit ==
    /\ pc = "new"
    /\ jobs_df' = PrepareFrame(caller_df)
    /\ tfidf_vectorizer' = Fit(CombinedTexts(jobs_df'))
    /\ job_vectors' = JobVectors(tfidf_vectorizer', jobs_df')
    /\ constructed' = [jobs_df |-> jobs_df', tfidf_vectorizer |-> tfidf_vectorizer',
                        job_vectors |-> job_vectors']
    /\ pc' = "idle"
    /\ UNCHANGED <<caller_df, argsort_ties, python_build, threads, call, ret, ncalls>>


NotConstructed == [jobs_df |-> <<>>, tfidf_vectorizer |-> NoVectorizer, job_vectors |-> <<>>]

(***************************************************************************)
(* RecommendationEngine._apply_filters                                     *)
(***************************************************************************)
\* Python None as a str argument
None == <<"None">>

\* `if s:` for an optional str
Truthy(s) == s # None /\ s # <<>>

AnyLabel == <<"A","n","y">>
Remote == <<"R","e","m","o","t","e">>

\* a location filter whose 'Remote' test is case-sensitive
LocationKeepsCaseSensitive(row, location) ==
    IF Truthy(location) /\ location # AnyLabel
    THEN IF location = Remote
         THEN row.location # NA /\ Contains(row.location, Remote)
         ELSE (row.location # NA /\ row.location = location)
              \/ (row.location # NA /\ Contains(row.location, Remote))
    ELSE TRUE

\* the location filter's mask on one row; True where the filter is not applied
LocationKeeps(row, location) ==
    IF Truthy(location) /\ location # AnyLabel
    THEN IF location = Remote
         THEN StrContainsNoCase(row.location, Remote)
         ELSE (row.location # NA /\ row.location = location)
              \/ StrContainsNoCase(row.location, Remote)
    ELSE TRUE

ExtractExperienceYears(experience_level) ==
    IF Contains(experience_level, <<"E","n","t","r","y">>) THEN Num(1)
    ELSE IF Contains(experience_level, <<"M","i","d">>) THEN Num(4)
    ELSE IF Contains(experience_level, <<"S","e","n","i","o","r">>) THEN Num(8)
    ELSE IF Contains(experience_level, <<"E","x","p","e","r","t">>) THEN Num(12)
    ELSE NoNum

\* an experience mask that excludes both ends of the range
ExperienceMaskStrict(row, exp_years) ==
    IF IsNum(exp_years)
    THEN /\ IsNum(row.exp_min) /\ row.exp_min[1] < exp_years[1]
         /\ IsNum(row.exp_max) /\ row.exp_max[1] > exp_years[1]
    ELSE TRUE

ExperienceMask(row, exp_years) ==
    IF IsNum(exp_years)
    THEN NumLe(row.exp_min, exp_years) /\ NumGe(row.exp_max, exp_years)
    ELSE TRUE

\* the experience filter's mask on one row
ExperienceKeeps(row, experience_level) ==
    IF Truthy(experience_level)
    THEN ExperienceMask(row, ExtractExperienceYears(experience_level))
    ELSE TRUE

\* a salary mask that keeps only the bands lying inside the requested band
SalaryKeepsInside(row, salary_min, salary_max) ==
    IF IsNum(salary_min) /\ IsNum(salary_max)
    THEN NumGe(row.salary_min, salary_min) /\ NumLe(row.salary_max, salary_max)
    ELSE TRUE

\* the salary filter's mask on one row
SalaryKeeps(row, salary_min, salary_max) ==
    IF IsNum(salary_min) /\ IsNum(salary_max)
    THEN NumGe(row.salary_max, salary_min) /\ NumLe(row.salary_min, salary_max)
    ELSE TRUE

FilterLocation(df, location) ==
    BoolIndex(df, [i \in 1..Len(df) |-> LocationKeeps(df[i], location)])

FilterExperience(df, experience_level) ==
    BoolIndex(df, [i \in 1..Len(df) |-> ExperienceKeeps(df[i], experience_level)])

FilterSalary(df, salary_min, salary_max) ==
    BoolIndex(df, [i \in 1..Len(df) |-> SalaryKeeps(df[i], salary_min, salary_max)])

ApplyFilters(df, location, experience_level, salary_min, salary_max) ==
    FilterSalary(FilterExperience(FilterLocation(df, location), experience_level),
                 salary_min, salary_max)

(***************************************************************************)
(* RecommendationEngine._generate_match_explanation                        *)
(***************************************************************************)
Take(s, n) == SubSeq(s, 1, IF n < Len(s) THEN n ELSE Len(s))

MatchingSkills(job_skills_str, user_skills) ==
    BoolIndex(user_skills,
              [i \in 1..Len(user_skills) |-> Contains(job_skills_str, Lower(user_skills[i]))])

TitleKeywords(user_skills) ==
    BoolIndex([i \in 1..Len(user_skills) |-> Lower(user_skills[i])],
              [i \in 1..Len(user_skills) |-> Len(user_skills[i]) > 3])

SkillsFragment(matching) ==
    IF Len(matching) > 0
    THEN << <<"M","a","t","c","h","i","n","g"," ","s","k","i","l","l","s",":"," ">>
            \o Join(Take(matching, 3), <<","," ">>) >>
    ELSE <<>>

TitleFragment(job_title, keywords) ==
    IF \E k \in DOMAIN keywords : Contains(job_title, keywords[k])
    THEN LET first == CHOOSE k \in DOMAIN keywords :
                          /\ Contains(job_title, keywords[k])
                          /\ \A j \in 1..(k - 1) : ~Contains(job_title, keywords[j])
         IN  << <<"T","i","t","l","e"," ","c","o","n","t","a","i","n","s"," ","'">>
                 \o keywords[first] \o <<"'">> >>
    ELSE <<>>

GeneralProfileMatch ==
    <<"G","e","n","e","r","a","l"," ","p","r","o","f","i","l","e"," ","m","a","t","c","h">>

Explanations(fragments) ==
    Join(Take(IF Len(fragments) = 0 THEN <<GeneralProfileMatch>> ELSE fragments, 2),
         <<" ","|"," ">>)

GenerateMatchExplanation(job_row, user_skills) ==
    Explanations(
        SkillsFragment(MatchingSkills(Lower(StrOf(job_row.skills)), user_skills))
        \o TitleFragment(Lower(StrOf(job_row.job_title)), TitleKeywords(user_skills)))

(***************************************************************************)
(* RecommendationEngine.get_recommendations                                *)
(***************************************************************************)
\* recommendations_df['compatibility_score'] = similarity_scores (by position)
\* scores attached by index label: row i gets the similarity of the vector at
\* the position its label names, 0 where the label names none
WithScoresByLabel(df, vectors, user_vector) ==
    Tuple([i \in 1..Len(df) |->
             WithColumn(df[i], "compatibility_score",
                        IF df[i].index + 1 \in DOMAIN vectors
                        THEN CosineSimilarity(user_vector, vectors[df[i].index + 1])
                        ELSE 0)])

WithScores(df, vectors, user_vector) ==
    Tuple([i \in 1..Len(df) |->
             WithColumn(df[i], "compatibility_score",
                        CosineSimilarity(user_vector, vectors[i]))])

\* row a goes before row b in the descending order; equal keys go as this
\* build's argsort leaves them (kind='quicksort' promises no order)
GoesBefore(df, ties, a, b) ==
    \/ df[a].compatibility_score > df[b].compatibility_score
    \/ /\ df[a].compatibility_score = df[b].compatibility_score
       /\ ties[a] < ties[b]

\* sort_values('compatibility_score') with the default ascending=True
SortValuesAscending(df, ties) ==
    Tuple([k \in 1..Len(df) |->
             df[CHOOSE a \in 1..Len(df) :
                    Cardinality({b \in 1..Len(df) : GoesBefore(df, ties, a, b)}) = k - 1]])

\* sort_values('compatibility_score', ascending=False)
SortValues(df, ties) ==
    Tuple([k \in 1..Len(df) |->
             df[CHOOSE a \in 1..Len(df) :
                    Cardinality({b \in 1..Len(df) : GoesBefore(df, ties, b, a)}) = k - 1]])

WithExplanations(df, user_skills) ==
    Tuple([i \in 1..Len(df) |->
             WithColumn(df[i], "match_explanation",
                        GenerateMatchExplanation(df[i], user_skills))])

\* head(top_n) taken before sort_values: the first top_n filtered rows, sorted
HeadBeforeSort(df, vec, vectors, ties, a) ==
    SortValues(Take(ApplyFilters(WithScores(df, vectors,
                                            Transform(vec, Join(a.user_skills, <<" ">>))),
                                 a.location, a.experience_level,
                                 a.salary_min, a.salary_max),
                    a.top_n),
               ties)

\* the frame after sort_values(...).head(top_n), before the explanations
Ranked(df, vec, vectors, ties, a) ==
    Take(SortValues(ApplyFilters(WithScores(df, vectors,
                                            Transform(vec, Join(a.user_skills, <<" ">>))),
                                 a.location, a.experience_level,
                                 a.salary_min, a.salary_max),
                    ties),
         a.top_n)

Recommendations(df, vec, vectors, ties, a) ==
    WithExplanations(Ranked(df, vec, vectors, ties, a), a.user_skills)

\* a row whose cells are all NaN, as DataFrame.apply(axis=1) builds one for a
\* frame without rows
NaNRow == [job_title |-> NA, skills |-> NA]

\* apply on a frame without rows calls the function once on NaNRow to learn
\* what it returns: a str, whatever the skills (str(nan) is 'nan')
ExplanationOfNaNRow(user_skills) == GenerateMatchExplanation(NaNRow, user_skills)

\* an apply whose trial call always fails
TrialCallFails(user_skills) == TRUE

\* the trial call raises only at skill.lower(), for a skill that is no str
TrialCallRaises(user_skills) == \E i \in DOMAIN user_skills : user_skills[i] = None

\* if the trial call raises, apply returns the empty frame itself and the
\* assignment of a frame to the one column raises ValueError
ExplanationStepRaises(ranked, user_skills) ==
    Len(ranked) = 0 /\ TrialCallRaises(user_skills)

\* lines 92-98, given the frame of lines 66-90
ExplainAndReturn(ranked, user_skills) ==
    IF ExplanationStepRaises(ranked, user_skills)
    THEN pc' = "raised" /\ ret' = <<>>
    ELSE pc' = "returned" /\ ret' = WithExplanations(ranked, user_skills)

\* self.jobs_df after a call that filtered it in place, without the copies
FilteredInPlace(df, a) ==
    ApplyFilters(df, a.location, a.experience_level, a.salary_min, a.salary_max)

\* self.jobs_df after the call: the call works on copies (lines 74 and 108)
SelfJobsDf(df, a) == df

(***************************************************************************)
(* DataProcessor (utils/data_processor.py)                                 *)
(***************************************************************************)
\* a key that a raw record does not hold
Absent == <<"absent">>

\* pd.isna of a cell of the frame built from the records
IsNA(cell) == cell = NA \/ cell = Absent

IsSpace(c) == c \in {" ", "\t", "\n"}

\* str.strip()
RECURSIVE LStrip(_)
LStrip(s) == IF Len(s) > 0 /\ IsSpace(s[1]) THEN LStrip(Tail(s)) ELSE s

RECURSIVE RStrip(_)
RStrip(s) ==
    IF Len(s) > 0 /\ IsSpace(s[Len(s)]) THEN RStrip(SubSeq(s, 1, Len(s) - 1)) ELSE s

Strip(s) == RStrip(LStrip(s))

\* re.sub(r'\s+', ' ', s)
RECURSIVE CollapseSpaces(_)
CollapseSpaces(s) ==
    IF Len(s) = 0 THEN <<>>
    ELSE IF IsSpace(s[1])
         THEN <<" ">> \o CollapseSpaces(LStrip(s))
         ELSE <<s[1]>> \o CollapseSpaces(Tail(s))

IsCased(c) == IsUpper(c) \/ IsLower(c)

\* str.title(): a letter after a letter is lowered, any other letter is raised
TitleCase(s) ==
    Tuple([i \in 1..Len(s) |->
             IF i > 1 /\ IsCased(s[i - 1]) THEN LowerChar(s[i]) ELSE UpperChar(s[i])])

NotSpecified == <<"N","o","t"," ","S","p","e","c","i","f","i","e","d">>

CleanJobTitle(title) ==
    IF IsNA(title) THEN NotSpecified
    ELSE TitleCase(CollapseSpaces(Strip(title)))

\* the end of the run of digits that starts at i
DigitRunEnd(s, i) ==
    CHOOSE j \in i..Len(s) :
        /\ \A k \in i..j : IsDigit(s[k])
        /\ j = Len(s) \/ ~IsDigit(s[j + 1])

\* re.findall(r'(\d+)', s), or with decimals r'(\d+(?:\.\d+)?)'
RECURSIVE FindNumbers(_, _, _)
FindNumbers(s, i, decimals) ==
    IF i > Len(s) THEN <<>>
    ELSE IF ~IsDigit(s[i]) THEN FindNumbers(s, i + 1, decimals)
    ELSE LET e == DigitRunEnd(s, i)
             stop == IF decimals /\ e + 2 <= Len(s) /\ s[e + 1] = "." /\ IsDigit(s[e + 2])
                     THEN DigitRunEnd(s, e + 2) ELSE e
         IN  <<SubSeq(s, i, stop)>> \o FindNumbers(s, stop + 1, decimals)

DigitValue(c) == IndexOf(DigitChars, c) - 1

\* int(digits)
RECURSIVE ParseInt(_)
ParseInt(digits) ==
    IF Len(digits) = 0 THEN 0
    ELSE 10 * ParseInt(SubSeq(digits, 1, Len(digits) - 1)) + DigitValue(digits[Len(digits)])

\* float(token), in hundredths; decimals beyond the second are cut
ParseFloat(token) ==
    IF \E i \in DOMAIN token : token[i] = "."
    THEN LET dot  == IndexOf(token, ".")
             frac == SubSeq(token, dot + 1, Len(token))
         IN  100 * ParseInt(SubSeq(token, 1, dot - 1))
             + 10 * DigitValue(frac[1])
             + (IF Len(frac) >= 2 THEN DigitValue(frac[2]) ELSE 0)
    ELSE 100 * ParseInt(token)

SalaryFromNumbers(numbers) ==
    IF Len(numbers) >= 2 THEN <<Num(ParseFloat(numbers[1])), Num(ParseFloat(numbers[2]))>>
    ELSE IF Len(numbers) = 1
         THEN <<Num(ParseFloat(numbers[1])), Num((ParseFloat(numbers[1]) * 12) \div 10)>>
         ELSE <<NoNum, NoNum>>

\* _process_salary.extract_salary_range
ExtractSalaryRange(salary_str) ==
    IF IsNA(salary_str) THEN <<NoNum, NoNum>>
    ELSE SalaryFromNumbers(FindNumbers(Lower(salary_str), 1, TRUE))

ExperienceFromNumbers(numbers) ==
    IF Len(numbers) >= 2 THEN <<Num(ParseInt(numbers[1])), Num(ParseInt(numbers[2]))>>
    ELSE IF Len(numbers) = 1
         THEN <<Num(ParseInt(numbers[1])), Num(ParseInt(numbers[1]) + 2)>>
         ELSE <<Num(0), Num(2)>>

\* _process_experience.extract_experience_range
ExtractExperienceRange(exp_str) ==
    IF IsNA(exp_str) THEN <<NoNum, NoNum>>
    ELSE ExperienceFromNumbers(FindNumbers(Lower(exp_str), 1, FALSE))

EntryLevel == <<"E","n","t","r","y"," ","L","e","v","e","l"," ","(","0","-","2"," ","y","e","a","r","s",")">>
MidLevel == <<"M","i","d"," ","L","e","v","e","l"," ","(","3","-","5"," ","y","e","a","r","s",")">>
SeniorLevel == <<"S","e","n","i","o","r"," ","L","e","v","e","l"," ","(","6","-","1","0"," ","y","e","a","r","s",")">>
ExpertLevel == <<"E","x","p","e","r","t"," ","L","e","v","e","l"," ","(","1","0","+"," ","y","e","a","r","s",")">>

\* _process_experience.get_experience_level; twice the average is compared
GetExperienceLevel(exp_min, exp_max) ==
    LET twice_avg == IF IsNum(exp_min) /\ IsNum(exp_max) THEN exp_min[1] + exp_max[1] ELSE 4
    IN  IF twice_avg <= 4 THEN EntryLevel
        ELSE IF twice_avg <= 10 THEN MidLevel
        ELSE IF twice_avg <= 20 THEN SeniorLevel
        ELSE ExpertLevel

\* re.split(r'[,;|]', s)
RECURSIVE SplitSkills(_, _)
SplitSkills(s, cur) ==
    IF Len(s) = 0 THEN <<cur>>
    ELSE IF s[1] \in {",", ";", "|"} THEN <<cur>> \o SplitSkills(Tail(s), <<>>)
    ELSE SplitSkills(Tail(s), Append(cur, s[1]))

RECURSIVE CleanedSkills(_)
CleanedSkills(parts) ==
    IF Len(parts) = 0 THEN <<>>
    ELSE (IF Len(Strip(parts[1])) > 1 THEN <<TitleCase(Strip(parts[1]))>> ELSE <<>>)
         \o CleanedSkills(Tail(parts))

CleanSkills(skills_str) ==
    IF IsNA(skills_str) THEN <<>>
    ELSE Join(CleanedSkills(SplitSkills(skills_str, <<>>)), <<","," ">>)

\* location_mapping, in the order of the dict
LocationMapping ==
    << << <<"b","e","n","g","a","l","u","r","u">>, <<"B","a","n","g","a","l","o","r","e">> >>,
       << <<"m","u","m","b","a","i">>, <<"M","u","m","b","a","i">> >>,
       << <<"d","e","l","h","i">>, <<"D","e","l","h","i">> >>,
       << <<"h","y","d","e","r","a","b","a","d">>, <<"H","y","d","e","r","a","b","a","d">> >>,
       << <<"p","u","n","e">>, <<"P","u","n","e">> >>,
       << <<"c","h","e","n","n","a","i">>, <<"C","h","e","n","n","a","i">> >>,
       << <<"k","o","l","k","a","t","a">>, <<"K","o","l","k","a","t","a">> >>,
       << <<"g","u","r","g","a","o","n">>, <<"G","u","r","g","a","o","n">> >>,
       << <<"n","o","i","d","a">>, <<"N","o","i","d","a">> >> >>

MapLocation(location, location_lower) ==
    IF \E k \in DOMAIN LocationMapping : Contains(location_lower, LocationMapping[k][1])
    THEN LocationMapping[CHOOSE k \in DOMAIN LocationMapping :
                             /\ Contains(location_lower, LocationMapping[k][1])
                             /\ \A j \in 1..(k - 1) :
                                    ~Contains(location_lower, LocationMapping[j][1])][2]
    ELSE TitleCase(location)

CleanLocation(location) ==
    IF IsNA(location) THEN NotSpecified
    ELSE MapLocation(Strip(location), Lower(Strip(location)))

\* 'name' in df.columns, for the frame pd.DataFrame(jobs_data) builds
HasColumn(jobs_data, name) == \E i \in DOMAIN jobs_data : jobs_data[i][name] # Absent

\* np.random.choice([0, 1, 2, 3, 5, 8]) and exp_min + np.random.choice([2, 3, 4, 5])
RandomExperience == {<<Num(lo), Num(lo + d)>> : lo \in {0, 1, 2, 3, 5, 8}, d \in {2, 3, 4, 5}}

\* np.random.uniform(3, 15) and salary_min * np.random.uniform(1.2, 2.0): the ends
RandomSalary == {<<Num(lo), Num((lo * f) \div 10)>> : lo \in {Lakh(3), Lakh(15)}, f \in {12, 20}}

\* pd.Timestamp.now()
Now == <<"now">>

ProcessRow(raw, i, has_salary, has_experience, has_date, salary_draw, exp_draw) ==
    LET salary == IF has_salary THEN ExtractSalaryRange(raw.salary) ELSE salary_draw
        exp    == IF has_experience THEN ExtractExperienceRange(raw.experience) ELSE exp_draw
    IN  [job_title |-> CleanJobTitle(raw.job_title),
         skills |-> CleanSkills(raw.skills),
         location |-> CleanLocation(raw.location),
         exp_min |-> exp[1], exp_max |-> exp[2],
         salary_min |-> salary[1], salary_max |-> salary[2],
         experience_level |-> GetExperienceLevel(exp[1], exp[2]),
         salary |-> IF raw.salary = Absent THEN NA ELSE raw.salary,
         experience |-> IF raw.experience = Absent THEN NA ELSE raw.experience,
         index |-> i - 1,
         posted_date |-> IF ~has_date THEN Now
                         ELSE IF raw.posted_date = Absent THEN NA ELSE raw.posted_date]

\* the frame process_jobs returns, given what the random generator drew
ProcessedFrame(jobs_data, salary_draws, exp_draws) ==
    Tuple([i \in 1..Len(jobs_data) |->
             ProcessRow(jobs_data[i], i,
                        HasColumn(jobs_data, "salary"), HasColumn(jobs_data, "experience"),
                        HasColumn(jobs_data, "posted_date"),
                        salary_draws[i], exp_draws[i])])

\* df['job_title'], df['skills'] and df['location'] raise KeyError without the column
ProcessJobsRaises(jobs_data) ==
    \/ ~HasColumn(jobs_data, "job_title")
    \/ ~HasColumn(jobs_data, "skills")
    \/ ~HasColumn(jobs_data, "location")

SalaryDraws(jobs_data) ==
    IF HasColumn(jobs_data, "salary") THEN {[i \in 1..Len(jobs_data) |-> <<NoNum, NoNum>>]}
    ELSE [1..Len(jobs_data) -> RandomSalary]

ExperienceDraws(jobs_data) ==
    IF HasColumn(jobs_data, "experience") THEN {[i \in 1..Len(jobs_data) |-> <<NoNum, NoNum>>]}
    ELSE [1..Len(jobs_data) -> RandomExperience]

ProcessJobs ==
    /\ pc = "args"
    /\ call.op = "process_jobs"
    /\ IF ProcessJobsRaises(call.jobs_data)
       THEN /\ pc' = "raised"
            /\ ret' = <<>>
       ELSE /\ pc' = "returned"
            /\ \E s \in SalaryDraws(call.jobs_data), e \in ExperienceDraws(call.jobs_data) :
                   ret' = ProcessedFrame(call.jobs_data, s, e)
    /\ UNCHANGED <<caller_df, jobs_df, tfidf_vectorizer, job_vectors, argsort_ties,
                   python_build, threads,
                   call, ncalls, constructed>>

(***************************************************************************)
(* RecommendationEngine.analyze_skill_gaps and _skills_similar             *)
(***************************************************************************)

\* What the interpreter leaves open: whether re knows the possessive repeat
\* 'x++' (Python 3.11 and later) and the order in which a set of str is
\* iterated (the hash seed of the process), given as the list of all skills in
\* table order.
Build(possessive, order) == [possessive_repeat |-> possessive, set_order |-> order]

\* the build of a run that neither compiles a pattern nor iterates a set
UnusedBuild == Build(FALSE, <<>>)

\* a call that ended in an exception, a call that ended with the value v
Raised == <<"raised", <<>>>>
Ok(v) == <<"ok", v>>
IsRaised(r) == r[1] = "raised"

\* re.compile of a pattern of literal characters and '+': the atoms
\* <<character, repeat>>, or CompileError for re.error ("nothing to repeat",
\* "multiple repeat")
CompileError == <<<<"re.error", "">>>>

RECURSIVE ParsePattern(_, _, _)
ParsePattern(pat, atoms, possessive) ==
    IF Len(pat) = 0 THEN atoms
    ELSE IF pat[1] # "+"
         THEN ParsePattern(Tail(pat), Append(atoms, <<pat[1], "one">>), possessive)
    ELSE IF Len(atoms) = 0 THEN CompileError
    ELSE LET last == atoms[Len(atoms)]
             before == SubSeq(atoms, 1, Len(atoms) - 1)
         IN  IF last[2] = "one"
             THEN ParsePattern(Tail(pat), Append(before, <<last[1], "plus">>), possessive)
             ELSE IF last[2] = "plus" /\ possessive
                  THEN ParsePattern(Tail(pat), Append(before, <<last[1], "possessive">>),
                                    possessive)
                  ELSE CompileError

\* re.compile(pat, re.IGNORECASE): letters are compared in lower case
Compile(pat, possessive) == ParsePattern(Lower(pat), <<>>, possessive)

\* how many times c stands in text from pos on
RECURSIVE RunOf(_, _, _)
RunOf(c, text, pos) ==
    IF pos <= Len(text) /\ text[pos] = c THEN 1 + RunOf(c, text, pos + 1) ELSE 0

\* the atoms from the k-th on match text at pos
RECURSIVE MatchAt(_, _, _, _)
MatchAt(atoms, k, text, pos) ==
    IF k > Len(atoms) THEN TRUE
    ELSE LET run == RunOf(atoms[k][1], text, pos)
         IN  IF atoms[k][2] = "one"
             THEN run >= 1 /\ MatchAt(atoms, k + 1, text, pos + 1)
             ELSE IF atoms[k][2] = "plus"
                  THEN \E n \in 1..run : MatchAt(atoms, k + 1, text, pos + n)
                  ELSE run >= 1 /\ MatchAt(atoms, k + 1, text, pos + run)

\* pattern.search(text) is not None
Search(atoms, text) == \E pos \in 1..(Len(text) + 1) : MatchAt(atoms, 1, text, pos)

\* self.jobs_df['job_title'].str.contains(pat, case=False, na=False)
TitleMask(df, atoms) ==
    [i \in 1..Len(df) |-> df[i].job_title # NA /\ Search(atoms, Lower(df[i].job_title))]

\* self.jobs_df[...str.contains(pat, ...)]: the rows, unless the pattern does
\* not compile
TitleContains(df, pat, possessive) ==
    LET atoms == Compile(pat, possessive)
    IN  IF atoms = CompileError THEN Raised ELSE Ok(BoolIndex(df, TitleMask(df, atoms)))

\* str.split()
RECURSIVE SplitWords(_, _)
SplitWords(s, cur) ==
    IF Len(s) = 0 THEN (IF cur = <<>> THEN <<>> ELSE <<cur>>)
    ELSE IF IsSpace(s[1])
         THEN (IF cur = <<>> THEN <<>> ELSE <<cur>>) \o SplitWords(Tail(s), <<>>)
         ELSE SplitWords(Tail(s), Append(cur, s[1]))

\* lines 192-199: the postings of the first keyword that matches a title
RECURSIVE KeywordJobs(_, _, _)
KeywordJobs(df, keywords, possessive) ==
    IF Len(keywords) = 0 THEN Ok(<<>>)
    ELSE LET r == TitleContains(df, keywords[1], possessive)
         IN  IF IsRaised(r) THEN r
             ELSE IF Len(r[2]) > 0 THEN r
             ELSE KeywordJobs(df, Tail(keywords), possessive)

\* lines 186-199
RoleJobs(df, target_role, possessive) ==
    LET r == TitleContains(df, target_role, possessive)
    IN  IF IsRaised(r) THEN r
        ELSE IF Len(r[2]) > 0 THEN r
        ELSE KeywordJobs(df, SplitWords(Lower(target_role), <<>>), possessive)

\* s.split(',')
RECURSIVE SplitOn(_, _, _)
SplitOn(s, sep, cur) ==
    IF Len(s) = 0 THEN <<cur>>
    ELSE IF s[1] = sep THEN <<cur>> \o SplitOn(Tail(s), sep, <<>>)
    ELSE SplitOn(Tail(s), sep, Append(cur, s[1]))

RECURSIVE StrippedNonEmpty(_)
StrippedNonEmpty(parts) ==
    IF Len(parts) = 0 THEN <<>>
    ELSE (IF Strip(parts[1]) # <<>> THEN <<Strip(parts[1])>> ELSE <<>>)
         \o StrippedNonEmpty(Tail(parts))

\* [skill.strip() for skill in str(skills_str).split(',') if skill.strip()]
SkillsOf(skills_str) == StrippedNonEmpty(SplitOn(skills_str, ",", <<>>))

LowerAll(strs) == [i \in 1..Len(strs) |-> Lower(strs[i])]

\* the lowercased skills of the postings, one entry per mention, the NaN
\* cells dropped
RECURSIVE LowerSkills(_)
LowerSkills(role_jobs) ==
    IF Len(role_jobs) = 0 THEN <<>>
    ELSE (IF role_jobs[1].skills = NA THEN <<>>
          ELSE LowerAll(SkillsOf(role_jobs[1].skills)))
         \o LowerSkills(Tail(role_jobs))

\* required_skills, a set
RequiredSkills(role_jobs) == Range(LowerSkills(role_jobs))

\* skill_counts.get(skill, 0)
SkillCount(role_jobs, skill) ==
    LET mentions == LowerSkills(role_jobs)
    IN  Cardinality({i \in DOMAIN mentions : mentions[i] = skill})

\* for x in a_set: the elements in table order
SetIteration(a_set, order) == SelectSeq(order, LAMBDA x : x \in a_set)

Abs(n) == IF n < 0 THEN -n ELSE n

\* _skills_similar without its first test: short tokens compared by length too
SkillsSimilarAnyLength(skill1, skill2) ==
    \/ Contains(skill2, skill1)
    \/ Contains(skill1, skill2)
    \/ Abs(Len(skill1) - Len(skill2)) <= 2

\* _skills_similar
SkillsSimilar(skill1, skill2) ==
    IF Len(skill1) < 3 \/ Len(skill2) < 3 THEN skill1 = skill2
    ELSE \/ Contains(skill2, skill1)
         \/ Contains(skill1, skill2)
         \/ Abs(Len(skill1) - Len(skill2)) <= 2

\* lines 215-221: some user skill matches the required skill
Found(req_skill, user_skills_lower) ==
    \E i \in DOMAIN user_skills_lower :
        \/ Contains(req_skill, user_skills_lower[i])
        \/ Contains(user_skills_lower[i], req_skill)
        \/ SkillsSimilar(user_skills_lower[i], req_skill)

TitleAll(strs) == [i \in 1..Len(strs) |-> TitleCase(strs[i])]

\* missing_skills with every required skill appended, found or not
EveryRequiredSkill(required, user_skills) == TitleAll(required)

\* existing_skills and missing_skills as lines 213-224 leave them
ExistingSkills(required, user_skills) ==
    TitleAll(SelectSeq(required, LAMBDA r : Found(r, LowerAll(user_skills))))

MissingSkills(required, user_skills) ==
    TitleAll(SelectSeq(required, LAMBDA r : ~Found(r, LowerAll(user_skills))))

\* sorted(..., key=count, reverse=True): stable, equal counts keep their order
RECURSIVE InsertByCount(_, _, _)
InsertByCount(sorted, x, count) ==
    IF Len(sorted) = 0 THEN <<x>>
    ELSE IF count[x] > count[sorted[1]] THEN <<x>> \o sorted
    ELSE <<sorted[1]>> \o InsertByCount(Tail(sorted), x, count)

RECURSIVE SortedByCount(_, _)
SortedByCount(skills, count) ==
    IF Len(skills) = 0 THEN <<>>
    ELSE InsertByCount(SortedByCount(SubSeq(skills, 1, Len(skills) - 1), count),
                       skills[Len(skills)], count)

\* missing_skills left as the loop over the set appended them
MissingSkillsAsAppended(missing, role_jobs) == missing

\* lines 233-239
MissingSkillsSorted(missing, role_jobs) ==
    SortedByCount(missing,
                  [x \in Range(missing) |-> SkillCount(role_jobs, Lower(x))])

\* len(existing_skills) / max(len(required_skills), 1) * 100, in units of
\* 2^-Precision
Max(a, b) == IF a > b THEN a ELSE b
\* the share of the skills not held
MissingPercentage(existing, required) ==
    RoundDiv(One * (required - existing), Max(required, 1)) * 100

SkillMatchPercentage(existing, required) == RoundDiv(One * existing, Max(required, 1)) * 100

\* the report of lines 242-248; existing_skills is list(set(...)), a list in
\* an order nothing reads, kept as the set of its elements
GapReport(target_role, role_jobs, user_skills, order) ==
    LET required == SetIteration(RequiredSkills(role_jobs), order)
        existing == ExistingSkills(required, user_skills)
    IN  [target_role            |-> target_role,
         total_role_jobs        |-> Len(role_jobs),
         existing_skills        |-> Range(existing),
         missing_skills         |-> MissingSkillsSorted(MissingSkills(required, user_skills),
                                                        role_jobs),
         skill_match_percentage |-> SkillMatchPercentage(Len(existing), Len(required))]

\* analyze_skill_gaps(user_skills, target_role) on the corpus df
AnalyzeSkillGapsOf(df, build, user_skills, target_role) ==
    LET r == RoleJobs(df, target_role, build.possessive_repeat)
    IN  IF IsRaised(r) THEN Raised
        ELSE Ok(GapReport(target_role, r[2], user_skills, build.set_order))

(***************************************************************************)
(* RecommendationEngine.get_similar_jobs and get_trending_skills           *)
(***************************************************************************)

\* np.argsort(keys): the positions in ascending order of key; equal keys go
\* as this build's argsort leaves them
Argsort(keys, ties) ==
    Tuple([k \in 1..Len(keys) |->
             CHOOSE a \in 1..Len(keys) :
                 Cardinality({b \in 1..Len(keys) :
                                 \/ keys[b] < keys[a]
                                 \/ keys[b] = keys[a] /\ ties[b] < ties[a]}) = k - 1])

\* s[::-1]
Reversed(s) == Tuple([k \in 1..Len(s) |-> s[Len(s) + 1 - k]])

\* cosine_similarity(job_vector, self.job_vectors)[0]
SimilaritiesTo(vectors, job_id) ==
    Tuple([i \in 1..Len(vectors) |-> CosineSimilarity(vectors[job_id + 1], vectors[i])])

\* np.argsort(similarities)[::-1][1:top_n+1]
SimilarIndices(similarities, ties, top_n) ==
    SubSeq(Reversed(Argsort(similarities, ties)), 2,
           IF top_n + 1 < Len(similarities) THEN top_n + 1 ELSE Len(similarities))

\* get_similar_jobs(job_id, top_n), 0 <= job_id
GetSimilarJobsOf(df, vectors, ties, job_id, top_n) ==
    IF job_id >= Len(df) THEN <<>>
    ELSE LET similarities == SimilaritiesTo(vectors, job_id)
             similar_indices == SimilarIndices(similarities, ties, top_n)
         IN  Tuple([k \in 1..Len(similar_indices) |->
                      WithColumn(df[similar_indices[k]], "similarity_score",
                                 similarities[similar_indices[k]])])

\* the skills of the corpus, one entry per mention, in the case they have
RECURSIVE Mentions(_)
Mentions(df) ==
    IF Len(df) = 0 THEN <<>>
    ELSE (IF df[1].skills = NA THEN <<>> ELSE SkillsOf(df[1].skills)) \o Mentions(Tail(df))

\* the keys of skill_counts, in insertion order
RECURSIVE FirstMentions(_, _)
FirstMentions(mentions, seen) ==
    IF Len(mentions) = 0 THEN seen
    ELSE FirstMentions(Tail(mentions),
                       IF mentions[1] \in Range(seen) THEN seen ELSE Append(seen, mentions[1]))

\* get_trending_skills(days): days is not read
GetTrendingSkillsOf(df) ==
    LET mentions == Mentions(df)
        counts == [x \in Range(mentions) |->
                     Cardinality({i \in DOMAIN mentions : mentions[i] = x})]
        ranked == Take(SortedByCount(FirstMentions(mentions, <<>>), counts), 20)
    IN  Tuple([k \in 1..Len(ranked) |->
                 [skill |-> ranked[k], count |-> counts[ranked[k]], trend |-> "up"]])

(***************************************************************************)
(* The calls the model makes                                               *)
(***************************************************************************)
MaxCalls == 2

Python == <<"P","y","t","h","o","n">>
Sql == <<"S","q","l">>
Rust == <<"R","u","s","t">>
Data == <<"D","a","t","a">>
Mumbai == <<"M","u","m","b","a","i">>

\* the last list spells the words of Job2's combined text
SkillLists == {<<>>, <<Python, Sql>>, <<Rust>>, <<Data, Python>>,
               <<<<"W","e","b"," ","D","e","v","W","e","b"," ","D","e","v">>,
                 Sql, <<"J","a","v","a">>>>}
TopNs == {2, 10}
Locations == {None, <<>>, AnyLabel, Remote, Mumbai}
ExperienceLevels == {None, <<>>, AnyLabel, EntryLevel, MidLevel, SeniorLevel, ExpertLevel}
SalaryBands == {<<NoNum, NoNum>>, <<Num(Lakh(18)), Num(Lakh(25))>>,
                <<Num(Lakh(25)), Num(Lakh(30))>>, <<Num(Lakh(18)), NoNum>>,
                <<NoNum, Num(Lakh(25))>>, <<Num(0), Num(Lakh(12))>>}

Filters(location, experience_level, band) ==
    [location |-> location, salary_min |-> band[1], salary_max |-> band[2],
     experience_level |-> experience_level]

\* every combination of the three filters
AllFilters ==
    {Filters(l, e, b) : l \in Locations, e \in ExperienceLevels, b \in SalaryBands}

\* the filter combinations get_recommendations is called with
CallFilters ==
    {Filters(None, None, <<NoNum, NoNum>>),
     Filters(Remote, None, <<NoNum, NoNum>>),
     Filters(Mumbai, SeniorLevel, <<NoNum, NoNum>>),
     Filters(AnyLabel, None, <<Num(Lakh(18)), Num(Lakh(25))>>),
     Filters(None, ExpertLevel, <<Num(Lakh(25)), Num(Lakh(30))>>)}

RecommendationCall(user_skills, f, top_n) ==
    [op |-> "get_recommendations", location |-> f.location,
     salary_min |-> f.salary_min, salary_max |-> f.salary_max,
     experience_level |-> f.experience_level,
     user_skills |-> user_skills, top_n |-> top_n]

GetRecommendations(a) ==
    /\ pc = "idle"
    /\ ncalls < MaxCalls
    /\ call' = a
    /\ ExplainAndReturn(Ranked(jobs_df, tfidf_vectorizer, job_vectors, argsort_ties, a),
                        a.user_skills)
    /\ jobs_df' = SelfJobsDf(jobs_df, a)
    /\ ncalls' = ncalls + 1
    /\ UNCHANGED <<caller_df, tfidf_vectorizer, job_vectors, argsort_ties, python_build, threads,
                   constructed>>

\* the caller takes the returned frame
Return ==
    /\ pc = "returned"
    /\ pc' = "idle"
    /\ call' = NoCall
    /\ ret' = <<>>
    /\ UNCHANGED <<caller_df, jobs_df, tfidf_vectorizer, job_vectors, argsort_ties,
                   python_build, threads,
                   ncalls, constructed>>

\* the caller of _apply_filters takes the frame it returned
ApplyFiltersCall ==
    /\ pc = "args"
    /\ call.op = "_apply_filters"
    /\ ret' = ApplyFilters(caller_df, call.location, call.experience_level,
                           call.salary_min, call.salary_max)
    /\ pc' = "returned"
    /\ UNCHANGED <<caller_df, jobs_df, tfidf_vectorizer, job_vectors, argsort_ties,
                   python_build, threads,
                   call, ncalls, constructed>>

\* an injective rank of the positions of the array being sorted
TieOrders(n) == {p \in [1..n -> 1..n] : \A i, j \in 1..n : p[i] = p[j] => i = j}

(***************************************************************************)
(* The engine: construction, then calls                                    *)
(***************************************************************************)
Init ==
    /\ caller_df \in Corpora
    /\ jobs_df = <<>>
    /\ tfidf_vectorizer = NoVectorizer
    /\ job_vectors = <<>>
    /\ argsort_ties \in TieOrders(Len(caller_df))
    /\ python_build = UnusedBuild
    /\ threads = <<>>
    /\ pc = "new"
    /\ call = NoCall
    /\ ret = <<>>
    /\ ncalls = 0
    /\ constructed = NotConstructed

Next ==
    \/ EngineInit
    \/ \E s \in SkillLists, f \in CallFilters, n \in TopNs :
           GetRecommendations(RecommendationCall(s, f, n))
    \/ Return

Spec == Init /\ [][Next]_vars

(***************************************************************************)
(* _apply_filters on every frame and every combination of filters          *)
(***************************************************************************)
InitFilters ==
    /\ caller_df \in Corpora
    /\ jobs_df = <<>>
    /\ tfidf_vectorizer = NoVectorizer
    /\ job_vectors = <<>>
    /\ argsort_ties = [i \in 1..Len(caller_df) |-> i]
    /\ python_build = UnusedBuild
    /\ threads = <<>>
    /\ pc = "args"
    /\ call \in {[op |-> "_apply_filters", location |-> f.location,
                  salary_min |-> f.salary_min, salary_max |-> f.salary_max,
                  experience_level |-> f.experience_level] : f \in AllFilters}
    /\ ret = <<>>
    /\ ncalls = 0
    /\ constructed = NotConstructed

NextFilters == ApplyFiltersCall

SpecFilters == InitFilters /\ [][NextFilters]_vars

(***************************************************************************)
(* process_jobs on every batch of raw records                              *)
(***************************************************************************)
MaxBatch == 2

T0 == <<"2025-01-01">>

Raw1 == [job_title   |-> <<"d","a","t","a"," "," ","d","e","v">>,
         skills      |-> <<"s","q","l",";"," ","p","y","t","h","o","n","|","a">>,
         location    |-> <<"b","e","n","g","a","l","u","r","u">>,
         salary      |-> <<"1","0","-","2","0"," ","L","P","A">>,
         experience  |-> <<"3","-","5"," ","y","e","a","r","s">>,
         posted_date |-> T0]

Raw2 == [job_title   |-> NA,
         skills      |-> NA,
         location    |-> NA,
         salary      |-> <<"2","0","-","1","0"," ","L","P","A">>,
         experience  |-> <<"5","-","3"," ","y","e","a","r","s">>,
         posted_date |-> T0]

Raw3 == [job_title   |-> <<" ","m","l"," ","l","e","a","d"," ">>,
         skills      |-> <<"S","q","l",","," ","G","o">>,
         location    |-> <<"r","e","m","o","t","e">>,
         salary      |-> <<"7",".","5"," ","l","p","a">>,
         experience  |-> <<"4","-","4"," ","y","e","a","r","s">>,
         posted_date |-> Absent]

Raw4 == [job_title   |-> <<"W","e","b"," ","D","e","v">>,
         skills      |-> <<"j","a","v","a">>,
         location    |-> <<"n","e","w"," ","d","e","l","h","i">>,
         salary      |-> <<"n","e","g","o","t","i","a","b","l","e">>,
         experience  |-> <<"3","+"," ","y","e","a","r","s">>,
         posted_date |-> T0]

\* no salary, experience or posted_date key
Raw5 == [job_title   |-> <<"Q","a">>,
         skills      |-> <<"s","q","l">>,
         location    |-> <<"K","o","c","h","i">>,
         salary      |-> Absent,
         experience  |-> Absent,
         posted_date |-> Absent]

Raw6 == [job_title   |-> <<"W","e","b"," ","D","e","v">>,
         skills      |-> <<"j","a","v","a">>,
         location    |-> <<"M","u","m","b","a","i">>,
         salary      |-> <<"5"," ","t","o"," ","8"," ","t","o"," ","1","2">>,
         experience  |-> <<"f","r","e","s","h","e","r">>,
         posted_date |-> T0]

\* no job_title, skills or location key; salary and experience are None
Raw7 == [job_title   |-> Absent,
         skills      |-> Absent,
         location    |-> Absent,
         salary      |-> NA,
         experience  |-> NA,
         posted_date |-> T0]

Raw8 == [job_title   |-> <<"W","e","b"," ","D","e","v">>,
         skills      |-> <<"j","a","v","a">>,
         location    |-> <<"M","u","m","b","a","i">>,
         salary      |-> <<"3","0">>,
         experience  |-> <<"1","2"," ","y","e","a","r","s">>,
         posted_date |-> T0]

RawPool == {Raw1, Raw2, Raw3, Raw4, Raw5, Raw6, Raw7, Raw8}

Batches == UNION {[1..n -> RawPool] : n \in 0..MaxBatch}

InitNorm ==
    /\ caller_df = <<>>
    /\ jobs_df = <<>>
    /\ tfidf_vectorizer = NoVectorizer
    /\ job_vectors = <<>>
    /\ argsort_ties = <<>>
    /\ python_build = UnusedBuild
    /\ threads = <<>>
    /\ pc = "args"
    /\ call \in {[op |-> "process_jobs", jobs_data |-> b] : b \in Batches}
    /\ ret = <<>>
    /\ ncalls = 0
    /\ constructed = NotConstructed

NextNorm == ProcessJobs

SpecNorm == InitNorm /\ [][NextNorm]_vars

(***************************************************************************)
(* process_jobs on the records it produced                                 *)
(***************************************************************************)

\* The records of the frame process_jobs returned for jobs_data: the frame has
\* a salary (experience) column only if jobs_data had the key; the columns
\* process_jobs computes anew are left out.
RecordsOf(df, jobs_data) ==
    Tuple([i \in 1..Len(df) |->
             [job_title   |-> df[i].job_title,
              skills      |-> df[i].skills,
              location    |-> df[i].location,
              salary      |-> IF HasColumn(jobs_data, "salary") THEN df[i].salary ELSE Absent,
              experience  |-> IF HasColumn(jobs_data, "experience")
                              THEN df[i].experience ELSE Absent,
              posted_date |-> df[i].posted_date]])

\* the caller hands the frame it got to process_jobs once more
ProcessAgain ==
    /\ pc = "returned"
    /\ call.op = "process_jobs"
    /\ "produced" \notin DOMAIN call
    /\ call' = [op |-> "process_jobs", jobs_data |-> RecordsOf(ret, call.jobs_data),
                produced |-> ret]
    /\ pc' = "args"
    /\ ret' = <<>>
    /\ UNCHANGED <<caller_df, jobs_df, tfidf_vectorizer, job_vectors, argsort_ties,
                   python_build, threads, ncalls, constructed>>

NextNormTwice == ProcessJobs \/ ProcessAgain

\* the batches of distinct records
InitNormTwice ==
    /\ caller_df = <<>>
    /\ jobs_df = <<>>
    /\ tfidf_vectorizer = NoVectorizer
    /\ job_vectors = <<>>
    /\ argsort_ties = <<>>
    /\ python_build = UnusedBuild
    /\ threads = <<>>
    /\ pc = "args"
    /\ call \in {[op |-> "process_jobs", jobs_data |-> b] : b \in {x \in Batches : Injective(x)}}
    /\ ret = <<>>
    /\ ncalls = 0
    /\ constructed = NotConstructed

SpecNormTwice == InitNormTwice /\ [][NextNormTwice]_vars

(***************************************************************************)
(* The engine under all four of its queries                                *)
(***************************************************************************)
MaxQueryJobs == 2

Go == <<"G","o">>
Sq == <<"S","q">>

\* the skills of the profile, as the caller splits them
GapSkillLists == {<<>>, <<Python>>, <<Sq>>, <<Go, Rust>>}

\* the role typed into the text input: part of a title, a role whose second
\* word is in a title, a role that is in no title, and one with a '+'
TargetRoles ==
    {<<"d","e","v">>,
     <<"S","e","n","i","o","r"," ","L","e","a","d">>,
     <<"Q","a"," ","T","e","s","t","e","r">>,
     <<"C","+","+"," ","C","o","d","e","r">>}

GapCall(user_skills, target_role) ==
    [op |-> "analyze_skill_gaps", user_skills |-> user_skills, target_role |-> target_role]

SimilarCall(job_id, top_n) ==
    [op |-> "get_similar_jobs", top_n |-> top_n, job_id |-> job_id]

TrendingCall(days) == [op |-> "get_trending_skills", days |-> days]

\* the recommendation calls made next to the other queries
QueryRecommendationCalls ==
    {RecommendationCall(<<Python, Sql>>, f, 10) :
        f \in {Filters(None, None, <<NoNum, NoNum>>),
               Filters(Mumbai, SeniorLevel, <<NoNum, NoNum>>)}}

\* every skill a posting of the pool asks for, in lower case
SkillUniverse == UNION {RequiredSkills(<<j>>) : j \in JobPool}

\* the iteration orders of a set of these skills
SetOrders ==
    {o \in [1..Cardinality(SkillUniverse) -> SkillUniverse] : Injective(o)}

Builds == {Build(p, o) : p \in BOOLEAN, o \in SetOrders}

QueryCorpora == {df \in Corpora : Len(df) <= MaxQueryJobs}

\* self.jobs_df after get_similar_jobs: the frame that gets the score column
\* is a copy
SimilarJobsInPlace(df, similar_jobs) == similar_jobs
JobsDfAfterSimilar(df, similar_jobs) == df

AnalyzeSkillGaps(a) ==
    /\ pc = "idle"
    /\ ncalls < MaxCalls
    /\ call' = a
    /\ LET r == AnalyzeSkillGapsOf(jobs_df, python_build, a.user_skills, a.target_role)
       IN  /\ pc' = IF IsRaised(r) THEN "raised" ELSE "returned"
           /\ ret' = r[2]
    /\ ncalls' = ncalls + 1
    /\ UNCHANGED <<caller_df, jobs_df, tfidf_vectorizer, job_vectors, argsort_ties,
                   python_build, threads, constructed>>

GetSimilarJobs(a) ==
    /\ pc = "idle"
    /\ ncalls < MaxCalls
    /\ call' = a
    /\ ret' = GetSimilarJobsOf(jobs_df, job_vectors, argsort_ties, a.job_id, a.top_n)
    /\ jobs_df' = JobsDfAfterSimilar(jobs_df, ret')
    /\ pc' = "returned"
    /\ ncalls' = ncalls + 1
    /\ UNCHANGED <<caller_df, tfidf_vectorizer, job_vectors, argsort_ties, python_build, threads,
                   constructed>>

GetTrendingSkills(a) ==
    /\ pc = "idle"
    /\ ncalls < MaxCalls
    /\ call' = a
    /\ ret' = GetTrendingSkillsOf(jobs_df)
    /\ pc' = "returned"
    /\ ncalls' = ncalls + 1
    /\ UNCHANGED <<caller_df, jobs_df, tfidf_vectorizer, job_vectors, argsort_ties,
                   python_build, threads, constructed>>

\* the exception reaches the caller; the engine stays as it is
Caught ==
    /\ pc = "raised"
    /\ pc' = "idle"
    /\ call' = NoCall
    /\ ret' = <<>>
    /\ UNCHANGED <<caller_df, jobs_df, tfidf_vectorizer, job_vectors, argsort_ties,
                   python_build, threads, ncalls, constructed>>

InitQueries ==
    /\ caller_df \in QueryCorpora
    /\ jobs_df = <<>>
    /\ tfidf_vectorizer = NoVectorizer
    /\ job_vectors = <<>>
    /\ argsort_ties \in TieOrders(Len(caller_df))
    /\ python_build \in Builds
    /\ threads = <<>>
    /\ pc = "new"
    /\ call = NoCall
    /\ ret = <<>>
    /\ ncalls = 0
    /\ constructed = NotConstructed

NextQueries ==
    \/ EngineInit
    \/ \E a \in QueryRecommendationCalls : GetRecommendations(a)
    \/ \E s \in GapSkillLists, r \in TargetRoles : AnalyzeSkillGaps(GapCall(s, r))
    \/ \E j \in 0..MaxQueryJobs, n \in {1, 5} : GetSimilarJobs(SimilarCall(j, n))
    \/ GetTrendingSkills(TrendingCall(30))
    \/ Return
    \/ Caught

SpecQueries == InitQueries /\ [][NextQueries]_vars

\* analyze_skill_gaps alone: the reports of every role and skill list
NextGaps ==
    \/ EngineInit
    \/ \E s \in GapSkillLists, r \in TargetRoles : AnalyzeSkillGaps(GapCall(s, r))
    \/ Return
    \/ Caught

SpecGaps == InitQueries /\ [][NextGaps]_vars

(***************************************************************************)
(* Calls running side by side on one engine                                *)
(***************************************************************************)
Threads == {"a", "b"}

IdleThread == [pc |-> "idle", call |-> NoCall, ret |-> <<>>, locals |-> <<>>]

\* cosine_similarity(user_vector, self.job_vectors)[0]
Similarities(vectors, user_vector) ==
    Tuple([i \in 1..Len(vectors) |-> CosineSimilarity(user_vector, vectors[i])])

\* recommendations_df = self.jobs_df.copy() with the scores as a column
ScoredCopy(df, similarities) ==
    Tuple([i \in 1..Len(df) |-> WithColumn(df[i], "compatibility_score", similarities[i])])

\* self.jobs_df after the call has ranked its own frame; a method that keeps
\* the ranked frame in self.jobs_df
RankedInPlace(df, ranked) == ranked
SelfJobsDfAfterRank(df, ranked) == df

\* the corpora the threads work on
ThreadCorpora == {Frame(<<Job1, Job2>>), Frame(<<Job4, Job3>>), Frame(<<Job2>>)}

\* the calls the threads make
ThreadCalls ==
    QueryRecommendationCalls
    \cup {GapCall(<<Sq>>, r) : r \in TargetRoles}

FirstStep(a) == IF a.op = "get_recommendations" THEN "transform" ELSE "whole"

At(t, step) == threads[t].pc = step

Goto(t, step, value) ==
    threads' = [threads EXCEPT ![t] = [pc |-> step, call |-> threads[t].call,
                                       ret |-> <<>>, locals |-> value]]

Finish(t, outcome, value) ==
    threads' = [threads EXCEPT ![t] = [pc |-> outcome, call |-> threads[t].call,
                                       ret |-> value, locals |-> <<>>]]

EngineUntouched ==
    UNCHANGED <<caller_df, jobs_df, tfidf_vectorizer, job_vectors, argsort_ties,
                python_build, pc, call, ret, ncalls, constructed>>

\* a thread enters a method of the built engine
Start(t, a) ==
    /\ pc = "idle"
    /\ At(t, "idle")
    /\ threads' = [threads EXCEPT ![t] = [pc |-> FirstStep(a), call |-> a,
                                          ret |-> <<>>, locals |-> <<>>]]
    /\ EngineUntouched

\* get_recommendations, lines 66-71: the query vector
StepTransform(t) ==
    /\ At(t, "transform")
    /\ Goto(t, "similarities",
            Transform(tfidf_vectorizer, Join(threads[t].call.user_skills, <<" ">>)))
    /\ EngineUntouched

\* line 74
StepSimilarities(t) ==
    /\ At(t, "similarities")
    /\ Goto(t, "copy", Similarities(job_vectors, threads[t].locals))
    /\ EngineUntouched

\* lines 77-78
StepCopy(t) ==
    /\ At(t, "copy")
    /\ Goto(t, "rank", ScoredCopy(jobs_df, threads[t].locals))
    /\ EngineUntouched

\* lines 81-98, on the thread's own frame
StepRank(t) ==
    /\ At(t, "rank")
    /\ LET a == threads[t].call
           ranked == Take(SortValues(ApplyFilters(threads[t].locals, a.location,
                                                  a.experience_level,
                                                  a.salary_min, a.salary_max),
                                     argsort_ties),
                          a.top_n)
       IN  /\ IF ExplanationStepRaises(ranked, a.user_skills)
              THEN Finish(t, "raised", <<>>)
              ELSE Finish(t, "returned", WithExplanations(ranked, a.user_skills))
           /\ jobs_df' = SelfJobsDfAfterRank(jobs_df, ranked)
    /\ UNCHANGED <<caller_df, tfidf_vectorizer, job_vectors, argsort_ties,
                   python_build, pc, call, ret, ncalls, constructed>>

\* analyze_skill_gaps, lines 186-188
StepWhole(t) ==
    /\ At(t, "whole")
    /\ LET r == TitleContains(jobs_df, threads[t].call.target_role,
                              python_build.possessive_repeat)
       IN  IF IsRaised(r) THEN Finish(t, "raised", <<>>)
           ELSE IF Len(r[2]) > 0 THEN Goto(t, "report", r[2])
           ELSE Goto(t, "keywords", r[2])
    /\ EngineUntouched

\* lines 190-199
StepKeywords(t) ==
    /\ At(t, "keywords")
    /\ LET r == KeywordJobs(jobs_df, SplitWords(Lower(threads[t].call.target_role), <<>>),
                            python_build.possessive_repeat)
       IN  IF IsRaised(r) THEN Finish(t, "raised", <<>>)
           ELSE Goto(t, "report", r[2])
    /\ EngineUntouched

\* lines 201-248, on the thread's own role_jobs
StepReport(t) ==
    /\ At(t, "report")
    /\ Finish(t, "returned",
              GapReport(threads[t].call.target_role, threads[t].locals,
                        threads[t].call.user_skills, python_build.set_order))
    /\ EngineUntouched

InitConcurrent ==
    /\ caller_df \in ThreadCorpora
    /\ jobs_df = <<>>
    /\ tfidf_vectorizer = NoVectorizer
    /\ job_vectors = <<>>
    /\ argsort_ties \in TieOrders(Len(caller_df))
    /\ python_build \in Builds
    /\ threads = [t \in Threads |-> IdleThread]
    /\ pc = "new"
    /\ call = NoCall
    /\ ret = <<>>
    /\ ncalls = 0
    /\ constructed = NotConstructed

NextConcurrent ==
    \/ EngineInit
    \/ \E t \in Threads :
           \/ \E a \in ThreadCalls : Start(t, a)
           \/ StepTransform(t)
           \/ StepSimilarities(t)
           \/ StepCopy(t)
           \/ StepRank(t)
           \/ StepWhole(t)
           \/ StepKeywords(t)
           \/ StepReport(t)

SpecConcurrent == InitConcurrent /\ [][NextConcurrent]_vars

(***************************************************************************)
(* RecommendationEngine.__init__ statement by statement, then queries      *)
(***************************************************************************)

\* an __init__ that returns without preparing the data
ReturnsUnprepared == "idle"

\* where __init__ goes after lines 12-14: line 15 calls _prepare_data
AfterInitFields == "prepare"

\* lines 12-14
InitFields ==
    /\ pc = "new"
    /\ jobs_df' = caller_df
    /\ tfidf_vectorizer' = NoVectorizer
    /\ job_vectors' = <<>>
    /\ pc' = AfterInitFields
    /\ UNCHANGED <<caller_df, argsort_ties, python_build, threads, call, ret, ncalls,
                   constructed>>

\* line 19
CombineText ==
    /\ pc = "prepare"
    /\ jobs_df' = PrepareFrame(jobs_df)
    /\ pc' = "fit"
    /\ UNCHANGED <<caller_df, tfidf_vectorizer, job_vectors, argsort_ties, python_build,
                   threads, call, ret, ncalls, constructed>>

\* lines 22-33; __init__ returns and the caller holds the engine
FitTransform ==
    /\ pc = "fit"
    /\ tfidf_vectorizer' = Fit(CombinedTexts(jobs_df))
    /\ job_vectors' = JobVectors(tfidf_vectorizer', jobs_df)
    /\ constructed' = [jobs_df |-> jobs_df, tfidf_vectorizer |-> tfidf_vectorizer',
                        job_vectors |-> job_vectors']
    /\ pc' = "idle"
    /\ UNCHANGED <<caller_df, jobs_df, argsort_ties, python_build, threads, call, ret,
                   ncalls>>

InitConstruction ==
    /\ caller_df \in QueryCorpora
    /\ jobs_df = <<>>
    /\ tfidf_vectorizer = NoVectorizer
    /\ job_vectors = <<>>
    /\ argsort_ties \in TieOrders(Len(caller_df))
    /\ python_build = UnusedBuild
    /\ threads = <<>>
    /\ pc = "new"
    /\ call = NoCall
    /\ ret = <<>>
    /\ ncalls = 0
    /\ constructed = NotConstructed

NextConstruction ==
    \/ InitFields
    \/ CombineText
    \/ FitTransform
    \/ \E a \in QueryRecommendationCalls : GetRecommendations(a)
    \/ \E j \in 0..MaxQueryJobs, n \in {1, 5} : GetSimilarJobs(SimilarCall(j, n))
    \/ Return

SpecConstruction == InitConstruction /\ [][NextConstruction]_vars

(***************************************************************************)
(* The engine built from a frame whose index is not 0..n-1                 *)
(***************************************************************************)

\* the index labels of a frame of n rows: the default, the default reversed,
\* labels that are no positions, one label for all rows
IndexLabels(n) ==
    {[i \in 1..n |-> i - 1], [i \in 1..n |-> n - i],
     [i \in 1..n |-> 2 * (n - i) + 3], [i \in 1..n |-> 0]}

\* df.set_index / df.sort_values / pd.concat leave such labels
Reindexed(df, labels) == Tuple([i \in 1..Len(df) |-> WithColumn(df[i], "index", labels[i])])

ReindexedCorpora ==
    UNION {{Reindexed(df, l) : l \in IndexLabels(Len(df))} : df \in QueryCorpora}

ReindexedCalls ==
    QueryRecommendationCalls
    \cup {RecommendationCall(s, Filters(None, None, <<NoNum, NoNum>>), n) :
            s \in {<<Data, Python>>, <<Rust>>}, n \in TopNs}

InitReindexed ==
    /\ caller_df \in ReindexedCorpora
    /\ jobs_df = <<>>
    /\ tfidf_vectorizer = NoVectorizer
    /\ job_vectors = <<>>
    /\ argsort_ties \in TieOrders(Len(caller_df))
    /\ python_build = UnusedBuild
    /\ threads = <<>>
    /\ pc = "new"
    /\ call = NoCall
    /\ ret = <<>>
    /\ ncalls = 0
    /\ constructed = NotConstructed

NextReindexed ==
    \/ EngineInit
    \/ \E a \in ReindexedCalls : GetRecommendations(a)
    \/ Return

SpecReindexed == InitReindexed /\ [][NextReindexed]_vars

(***************************************************************************)
(* process_jobs, then the experience filter on the frame it returned       *)
(***************************************************************************)
\* the caller keeps the processed frame and asks for the postings of the
\* experience level one of its rows carries
FilterByOwnLevel ==
    /\ pc = "returned"
    /\ call.op = "process_jobs"
    /\ \E i \in DOMAIN ret :
           call' = [op |-> "_apply_filters", location |-> None,
                    salary_min |-> NoNum, salary_max |-> NoNum,
                    experience_level |-> ret[i].experience_level]
    /\ caller_df' = ret
    /\ pc' = "args"
    /\ UNCHANGED <<jobs_df, tfidf_vectorizer, job_vectors, argsort_ties,
                   python_build, threads, ret, ncalls, constructed>>

NextBanding == ProcessJobs \/ FilterByOwnLevel \/ ApplyFiltersCall

SpecBanding == InitNorm /\ [][NextBanding]_vars

(***************************************************************************)
(* Properties                                                              *)
(***************************************************************************)
Returned(op) == pc = "returned" /\ call.op = op

Positions(df) == 1..Len(df)

\* the rows of caller_df that a per-row predicate keeps, in their order
RowsKept(keep(_)) == BoolIndex(caller_df, [i \in 1..Len(caller_df) |-> keep(caller_df[i])])

NoLocationFilter == call.location = None
NoExperienceFilter == call.experience_level = None
NoSalaryFilter == call.salary_min = NoNum /\ call.salary_max = NoNum

Band(lo, hi) == <<Num(Lakh(lo)), Num(Lakh(hi))>>
RowBand(row) == <<row.salary_min, row.salary_max>>
CallBand == <<call.salary_min, call.salary_max>>

\* C1: after process_jobs, every posting whose experience range holds two
\* numbers has exp_max >= exp_min + 1.
C1_ExperienceRangeOrdered ==
    Returned("process_jobs") =>
        \A i \in Positions(ret) :
            (IsNum(ret[i].exp_min) /\ IsNum(ret[i].exp_max))
                => ret[i].exp_max[1] >= ret[i].exp_min[1] + 1

\* C2: after process_jobs, every posting whose salary was parsed has
\* salary_max >= salary_min.
C2_SalaryRangeOrdered ==
    Returned("process_jobs") =>
        \A i \in Positions(ret) :
            (IsNum(ret[i].salary_min) /\ IsNum(ret[i].salary_max))
                => ret[i].salary_max[1] >= ret[i].salary_min[1]

\* C3: the rows get_recommendations returns are in non-increasing
\* compatibility_score order: each row's score is >= the next row's.
C3_ScoresNonIncreasing ==
    Returned("get_recommendations") =>
        \A i \in 1..(Len(ret) - 1) :
            ret[i].compatibility_score >= ret[i + 1].compatibility_score

\* C3 witness: a result whose first row scores more than the second and
\* stood after it in the corpus, so the sort moved it.
C3_Witness ==
    /\ Returned("get_recommendations")
    /\ Len(ret) >= 2
    /\ ret[1].compatibility_score > ret[2].compatibility_score
    /\ ret[1].index > ret[2].index

\* C4: in the result of get_recommendations, two rows with equal
\* compatibility_score stand in their corpus order, and the rows cut off by
\* top_n are not earlier in the corpus than a kept row of the same score.
C4_TiesInCorpusOrder ==
    Returned("get_recommendations") =>
        /\ \A i, j \in Positions(ret) :
               (i < j /\ ret[i].compatibility_score = ret[j].compatibility_score)
                   => ret[i].index < ret[j].index
        /\ LET scored == WithScores(jobs_df, job_vectors,
                                    Transform(tfidf_vectorizer,
                                              Join(call.user_skills, <<" ">>)))
               passed == ApplyFilters(scored, call.location, call.experience_level,
                                      call.salary_min, call.salary_max)
           IN  \A i \in Positions(ret), k \in Positions(passed) :
                   (/\ passed[k].compatibility_score = ret[i].compatibility_score
                    /\ \A j \in Positions(ret) : ret[j].index # passed[k].index)
                       => passed[k].index > ret[i].index

\* C5: get_recommendations is deterministic: whatever calls came before, a
\* call returns what the same call returns on the engine as constructed.
C5_SameAnswerAfterAnyCalls ==
    Returned("get_recommendations") =>
        ret = Recommendations(constructed.jobs_df, constructed.tfidf_vectorizer,
                              constructed.job_vectors, argsort_ties, call)

\* C5 witness: the second call on an engine has returned two or more rows.
C5_Witness ==
    /\ Returned("get_recommendations")
    /\ ncalls = 2
    /\ Len(ret) >= 2

\* C6: every compatibility_score get_recommendations produces lies in the
\* closed interval [0, 1].
C6_ScoresInUnitInterval ==
    Returned("get_recommendations") =>
        \A i \in Positions(ret) :
            /\ ret[i].compatibility_score >= 0
            /\ ret[i].compatibility_score <= One

\* the location cell contains 'Remote' in any letter case
HoldsRemote(row) ==
    row.location # NA /\ Contains(Lower(row.location), <<"r","e","m","o","t","e">>)

\* what C7 says of one row; an empty string counts as no location given
LocationClaimed(row) ==
    IF call.location \in {None, <<>>, AnyLabel} THEN TRUE
    ELSE IF call.location = Remote THEN HoldsRemote(row)
    ELSE row.location = call.location \/ HoldsRemote(row)

\* the other two filters, as the code applies them
OtherThanLocation(row) ==
    /\ ExperienceKeeps(row, call.experience_level)
    /\ SalaryKeeps(row, call.salary_min, call.salary_max)

LocationClaimedAndOthers(row) == LocationClaimed(row) /\ OtherThanLocation(row)

\* C7: the location filter of _apply_filters keeps every posting when the
\* location is absent or 'Any', only the postings whose location contains
\* 'Remote' in any case when it is 'Remote', and otherwise exactly those whose
\* location equals it or contains 'Remote' in any case.
C7_LocationFilter ==
    Returned("_apply_filters") => ret = RowsKept(LocationClaimedAndOthers)

\* C7 witness: postings at Bangalore, Remote and Mumbai filtered with
\* 'Remote' alone leave the Remote one.
C7_Witness ==
    /\ Returned("_apply_filters")
    /\ call.location = Remote /\ NoExperienceFilter /\ NoSalaryFilter
    /\ caller_df = Frame(<<Job1, Job2, Job3>>)
    /\ ret = <<caller_df[2]>>

\* what C8 says of one row
SalaryClaimed(row) ==
    IF IsNum(call.salary_min) /\ IsNum(call.salary_max)
    THEN /\ IsNum(row.salary_min) /\ IsNum(row.salary_max)
         /\ row.salary_max[1] >= call.salary_min[1]
         /\ row.salary_min[1] <= call.salary_max[1]
    ELSE TRUE

OtherThanSalary(row) ==
    /\ LocationKeeps(row, call.location)
    /\ ExperienceKeeps(row, call.experience_level)

SalaryClaimedAndOthers(row) == SalaryClaimed(row) /\ OtherThanSalary(row)

\* C8: the salary filter is applied only when both bounds are given, and then
\* keeps exactly the postings whose band overlaps the requested one; a (10,20)
\* posting is kept for (18,25) and dropped for (25,30), and with one bound
\* given no posting is dropped.
C8_SalaryFilter ==
    Returned("_apply_filters") =>
        /\ ret = RowsKept(SalaryClaimedAndOthers)
        /\ \A i \in Positions(caller_df) :
               (RowBand(caller_df[i]) = Band(10, 20) /\ OtherThanSalary(caller_df[i]))
                   => /\ CallBand = Band(18, 25) => \E k \in Positions(ret) : ret[k] = caller_df[i]
                      /\ CallBand = Band(25, 30) => \A k \in Positions(ret) : ret[k] # caller_df[i]
        /\ (IsNum(call.salary_min) # IsNum(call.salary_max))
               => ret = RowsKept(OtherThanSalary)

\* C8 witness: with the band (18,25) alone, the (10,20) posting is kept and
\* another posting is dropped.
C8_Witness ==
    /\ Returned("_apply_filters")
    /\ CallBand = Band(18, 25) /\ NoLocationFilter /\ NoExperienceFilter
    /\ \E k \in Positions(ret) : RowBand(ret[k]) = Band(10, 20)
    /\ Len(ret) < Len(caller_df)

\* the year C9 gives each of the four bands
BandYear(level) ==
    CASE level = EntryLevel -> 1
      [] level = MidLevel -> 4
      [] level = SeniorLevel -> 8
      [] level = ExpertLevel -> 12

\* what C9 says of one row
ExperienceClaimed(row) ==
    IF call.experience_level \in {EntryLevel, MidLevel, SeniorLevel, ExpertLevel}
    THEN /\ IsNum(row.exp_min) /\ IsNum(row.exp_max)
         /\ row.exp_min[1] <= BandYear(call.experience_level)
         /\ BandYear(call.experience_level) <= row.exp_max[1]
    ELSE TRUE

OtherThanExperience(row) ==
    /\ LocationKeeps(row, call.location)
    /\ SalaryKeeps(row, call.salary_min, call.salary_max)

ExperienceClaimedAndOthers(row) == ExperienceClaimed(row) /\ OtherThanExperience(row)

\* C9: the experience filter takes Entry as 1, Mid as 4, Senior as 8 and
\* Expert as 12 years and keeps exactly the postings with
\* exp_min <= year <= exp_max, both ends included; any other label drops
\* no posting.
C9_ExperienceFilter ==
    Returned("_apply_filters") => ret = RowsKept(ExperienceClaimedAndOthers)

\* C9 witness: the Senior band alone keeps the posting whose range starts at
\* 8 years and drops another posting.
C9_Witness ==
    /\ Returned("_apply_filters")
    /\ call.experience_level = SeniorLevel /\ NoLocationFilter /\ NoSalaryFilter
    /\ \E k \in Positions(ret) : ret[k].exp_min = Num(8)
    /\ Len(ret) < Len(caller_df)

\* C10: get_recommendations with no user skills returns postings that all
\* score 0 and stand in their corpus order.
C10_EmptySkillsKeepCorpusOrder ==
    (Returned("get_recommendations") /\ call.user_skills = <<>>) =>
        /\ \A i \in Positions(ret) : ret[i].compatibility_score = 0
        /\ \A i \in 1..(Len(ret) - 1) : ret[i].index < ret[i + 1].index

\* ---------------------------------------------------------------------------
\* C11: when no posting passes the filters, get_recommendations raises
\* nothing and returns an empty result: the explanation step on a frame
\* without rows does not fail.
NoPostingPasses ==
    Len(ApplyFilters(jobs_df, call.location, call.experience_level,
                     call.salary_min, call.salary_max)) = 0

Finished(op) == pc \in {"returned", "raised"} /\ call.op = op

C11_EmptyResultWithoutException ==
    Finished("get_recommendations") /\ NoPostingPasses
        => pc = "returned" /\ ret = <<>>

\* a call on a corpus with postings, all of them filtered out, has returned
C11_Witness ==
    /\ Returned("get_recommendations")
    /\ Len(jobs_df) > 0
    /\ NoPostingPasses
    /\ ExplanationOfNaNRow(call.user_skills) # <<>>

\* ---------------------------------------------------------------------------
\* C12: analyze_skill_gaps with a target role that is in no posting title,
\* neither as a whole nor through one of its whitespace-separated keywords,
\* raises nothing and returns total_role_jobs = 0, missing_skills = [],
\* existing_skills = [] and skill_match_percentage = 0.
InTitle(row, text) == row.job_title # NA /\ Contains(Lower(row.job_title), Lower(text))

RoleMatchesNoTitle ==
    \A i \in DOMAIN jobs_df :
        /\ ~InTitle(jobs_df[i], call.target_role)
        /\ \A k \in Range(SplitWords(Lower(call.target_role), <<>>)) : ~InTitle(jobs_df[i], k)

C12_NoMatchGivesZeroReport ==
    Finished("analyze_skill_gaps") /\ RoleMatchesNoTitle
        => /\ pc = "returned"
           /\ ret.total_role_jobs = 0
           /\ ret.missing_skills = <<>>
           /\ ret.existing_skills = {}
           /\ ret.skill_match_percentage = 0

\* ---------------------------------------------------------------------------
\* C19: skill_match_percentage is (number of skills in the returned
\* existing_skills) / max(number of distinct required skills, 1) * 100, and
\* lies in [0, 100].
RoleJobsOfCall == RoleJobs(jobs_df, call.target_role, python_build.possessive_repeat)[2]

DistinctRequired == Cardinality(RequiredSkills(RoleJobsOfCall))

SecondRunReturned ==
    pc = "returned" /\ call.op = "process_jobs" /\ "produced" \in DOMAIN call

NormalizedColumns ==
    {"job_title", "skills", "location", "salary_min", "salary_max",
     "exp_min", "exp_max", "experience_level"}

C13_NormalizationIdempotent ==
    SecondRunReturned
        => /\ Len(ret) = Len(call.produced)
           /\ \A i \in DOMAIN ret : \A c \in NormalizedColumns : ret[i][c] = call.produced[i][c]

\* ---------------------------------------------------------------------------
\* C14: process_jobs raises on no batch of raw records: a record with a
\* missing title, skills or location gets the default of that field ('Not
\* Specified', '', 'Not Specified'), also when the field is absent from every
\* record or the batch is empty, and every record of the batch yields a row.
C14_NeverRaises ==
    pc \in {"returned", "raised"} /\ call.op = "process_jobs"
        => /\ pc = "returned"
           /\ Len(ret) = Len(call.jobs_data)
           /\ \A i \in DOMAIN ret :
                  /\ IsNA(call.jobs_data[i].job_title) => ret[i].job_title = NotSpecified
                  /\ IsNA(call.jobs_data[i].skills) => ret[i].skills = <<>>
                  /\ IsNA(call.jobs_data[i].location) => ret[i].location = NotSpecified

\* ---------------------------------------------------------------------------
\* C15: no call to get_recommendations, analyze_skill_gaps, get_similar_jobs
\* or get_trending_skills changes the engine's corpus, fitted vocabulary or
\* job vectors: after any sequence of calls they are what __init__ left, and
\* no step changes the caller's DataFrame.
EngineAsConstructed ==
    constructed # NotConstructed
        => /\ jobs_df = constructed.jobs_df
           /\ tfidf_vectorizer = constructed.tfidf_vectorizer
           /\ job_vectors = constructed.job_vectors

C15_QueriesChangeNoState == []EngineAsConstructed /\ [][caller_df' = caller_df]_vars

\* a second call has returned postings, after another query of the engine
C15_Witness ==
    /\ Returned("get_similar_jobs")
    /\ ncalls = 2
    /\ Len(ret) > 0
    /\ EngineAsConstructed

\* ---------------------------------------------------------------------------
\* C16: get_recommendations and analyze_skill_gaps calls running side by
\* side on one built engine need no lock: under every interleaving of their
\* steps each call ends as it ends when run alone on the engine.
AloneOutcome(a) ==
    IF a.op = "get_recommendations"
    THEN Ok(Recommendations(constructed.jobs_df, constructed.tfidf_vectorizer,
                            constructed.job_vectors, argsort_ties, a))
    ELSE AnalyzeSkillGapsOf(constructed.jobs_df, python_build, a.user_skills, a.target_role)

Ended(t) == threads[t].pc \in {"returned", "raised"}

C16_SameResultAsAlone ==
    \A t \in DOMAIN threads :
        Ended(t) => LET alone == AloneOutcome(threads[t].call)
                    IN  /\ (threads[t].pc = "raised") = IsRaised(alone)
                        /\ threads[t].ret = alone[2]

\* a recommendation call returned postings while a gap analysis that had
\* started was not yet through
C16_Witness ==
    \E t, u \in DOMAIN threads :
        /\ threads[t].pc = "returned"
        /\ threads[t].call.op = "get_recommendations"
        /\ Len(threads[t].ret) > 0
        /\ threads[u].pc \in {"keywords", "report"}

\* ---------------------------------------------------------------------------
\* C17: the index is built before any query and once per engine: a
\* get_recommendations or get_similar_jobs call runs only on an engine whose
\* vectorizer is fitted and whose job_vectors are set, and no step after the
\* construction fits the vectorizer or sets the vectors again.
IndexBuilt ==
    /\ tfidf_vectorizer.fitted
    /\ job_vectors # <<>>
    /\ Len(job_vectors) = Len(jobs_df)

QueryPossible == pc \in {"idle", "returned", "raised"}

C17_IndexBuiltBeforeQueriesAndOnce ==
    /\ [](QueryPossible => IndexBuilt)
    /\ [][IndexBuilt => /\ tfidf_vectorizer' = tfidf_vectorizer
                        /\ job_vectors' = job_vectors]_vars

\* a second query has returned postings on the engine built step by step
C17_Witness ==
    /\ pc = "returned"
    /\ call.op \in {"get_recommendations", "get_similar_jobs"}
    /\ ncalls = 2
    /\ Len(ret) > 0
    /\ IndexBuilt

\* ---------------------------------------------------------------------------
\* C18: the score of each returned posting is the similarity between the
\* query and that posting's own document vector: vector row i belongs to
\* corpus row i at construction and at every query, whatever the index of the
\* frame the engine was built from.
QueryVector == Transform(tfidf_vectorizer, Join(call.user_skills, <<" ">>))

OwnVector(row) == Transform(tfidf_vectorizer, CombineJobFeatures(row))

VectorsFollowRows ==
    \A i \in DOMAIN jobs_df : job_vectors[i] = OwnVector(jobs_df[i])

IsCorpusRow(row) ==
    \E i \in DOMAIN jobs_df : \A c \in DOMAIN jobs_df[i] : row[c] = jobs_df[i][c]

C18_ScoreOfOwnVector ==
    /\ constructed # NotConstructed => VectorsFollowRows
    /\ Returned("get_recommendations")
           => \A k \in DOMAIN ret :
                  /\ IsCorpusRow(ret[k])
                  /\ ret[k].compatibility_score =
                         CosineSimilarity(QueryVector, OwnVector(ret[k]))

\* postings with different texts came back with different scores from an
\* engine whose frame has its labels in another order than its rows
C18_Witness ==
    /\ Returned("get_recommendations")
    /\ \E i \in DOMAIN jobs_df : jobs_df[i].index # i - 1
    /\ \E k, l \in DOMAIN ret :
           /\ ret[k].compatibility_score > ret[l].compatibility_score
           /\ ret[l].compatibility_score > 0

\* ---------------------------------------------------------------------------
\* C20: in the combined text every term of the job title occurs twice as
\* often as in the title itself (the title is counted twice), and the parts
\* title, skills, company, description are joined by single spaces, missing
\* parts skipped.
Terms(text) == TokensFrom(Lower(text), 1, <<>>)

PresentParts(row) ==
    (IF row.skills # NA THEN <<row.skills>> ELSE <<>>)
    \o (IF row.company # NA THEN <<row.company>> ELSE <<>>)
    \o (IF row.description # NA THEN <<row.description>> ELSE <<>>)

\* the combined text without the parts that follow the title
TitlePart(row) ==
    SubSeq(row.combined_text, 1,
           Len(row.combined_text) - Len(Join(<<<<>>>> \o PresentParts(row), <<" ">>)))

C20_TitleTermsCountedTwice ==
    \A i \in DOMAIN jobs_df :
        "combined_text" \in DOMAIN jobs_df[i] /\ jobs_df[i].job_title # NA
            => /\ \A t \in Range(Terms(jobs_df[i].job_title)) :
                      Count(Terms(TitlePart(jobs_df[i])), t)
                          = 2 * Count(Terms(jobs_df[i].job_title), t)
               /\ jobs_df[i].combined_text =
                      Join(<<TitlePart(jobs_df[i])>> \o PresentParts(jobs_df[i]),
                           <<" ">>)

\* ---------------------------------------------------------------------------
\* the scored corpus rows that pass the filters of the call in progress
PassedOfCall ==
    ApplyFilters(WithScores(jobs_df, job_vectors,
                            Transform(tfidf_vectorizer, Join(call.user_skills, <<" ">>))),
                 call.location, call.experience_level, call.salary_min, call.salary_max)

Min(a, b) == IF a < b THEN a ELSE b

\* the row of the passing frame is one of the returned rows
InResult(row) == \E j \in Positions(ret) : ret[j].index = row.index

\* C21: get_recommendations returns exactly min(top_n, number of postings
\* passing the filters) rows, each a passing posting with its score, and no
\* passing posting left out scores strictly higher than a returned one.
C21_TopRowsReturned ==
    Returned("get_recommendations") =>
        LET passed == PassedOfCall
        IN  /\ Len(ret) = Min(call.top_n, Len(passed))
            /\ \A i, j \in Positions(ret) : ret[i].index = ret[j].index => i = j
            /\ \A i \in Positions(ret) :
                   \E k \in Positions(passed) :
                       /\ passed[k].index = ret[i].index
                       /\ passed[k].compatibility_score = ret[i].compatibility_score
            /\ \A k \in Positions(passed), i \in Positions(ret) :
                   ~InResult(passed[k])
                       => passed[k].compatibility_score <= ret[i].compatibility_score

\* C21 witness: top_n cut the passing postings, the posting cut off scores
\* strictly less than every returned one and stood first in the corpus.
C21_Witness ==
    /\ Returned("get_recommendations")
    /\ LET passed == PassedOfCall
       IN  /\ Len(ret) = call.top_n
           /\ Len(passed) > call.top_n
           /\ ~InResult(passed[1])
           /\ \A i \in Positions(ret) :
                  passed[1].compatibility_score < ret[i].compatibility_score

\* ---------------------------------------------------------------------------
\* the terms of the query text of the call in progress
QueryTerms == Analyze(Join(call.user_skills, <<" ">>))

\* the query text is empty or has no term of the fitted vocabulary
QueryOutsideVocabulary == Range(QueryTerms) \cap tfidf_vectorizer.vocabulary = {}

\* the similarity of the query to every posting of the corpus, in corpus order
ScoresOfCall ==
    LET scored == WithScores(jobs_df, job_vectors, QueryVector)
    IN  [i \in 1..Len(scored) |-> scored[i].compatibility_score]

\* C22: a query whose text is empty or has only terms outside the fitted
\* vocabulary ends without an error and scores exactly 0 against every
\* posting of the corpus, the returned ones included.
C22_ZeroQueryScoresZero ==
    (Finished("get_recommendations") /\ QueryOutsideVocabulary) =>
        LET scores == ScoresOfCall
        IN  /\ pc = "returned"
            /\ \A i \in DOMAIN scores : scores[i] = 0
            /\ \A i \in Positions(ret) : ret[i].compatibility_score = 0

\* C22 witness: a query with a skill, none of its terms in the vocabulary,
\* has returned postings.
C22_Witness ==
    /\ Returned("get_recommendations")
    /\ call.user_skills # <<>>
    /\ QueryOutsideVocabulary
    /\ Len(ret) >= 2

\* ---------------------------------------------------------------------------
\* the explanation as stated: the skills fragment when a user skill is in the
\* skills text, else the title fragment when a long user skill is in the
\* title, else the general one
ExplanationClaimed(row, user_skills) ==
    LET matching == MatchingSkills(Lower(StrOf(row.skills)), user_skills)
        title == TitleFragment(Lower(StrOf(row.job_title)), TitleKeywords(user_skills))
    IN  IF Len(matching) > 0 THEN SkillsFragment(matching)[1]
        ELSE IF Len(title) > 0 THEN title[1]
        ELSE GeneralProfileMatch

\* C23: the match explanation of every returned row is 'Matching skills: ...'
\* with at most the first 3 matching user skills when one matches the skills
\* text, 'Title contains ...' only when none does, and 'General profile
\* match' exactly when neither applies.
C23_ExplanationAsStated ==
    Returned("get_recommendations") =>
        \A i \in Positions(ret) :
            ret[i].match_explanation = ExplanationClaimed(ret[i], call.user_skills)

\* ---------------------------------------------------------------------------
\* the postings whose title contains the text, letter case aside
JobsWithInTitle(df, text) == BoolIndex(df, [i \in 1..Len(df) |-> InTitle(df[i], text)])

\* the postings of the first keyword that is in some title, none if none is
RECURSIVE FirstKeywordJobs(_, _)
FirstKeywordJobs(df, keywords) ==
    IF Len(keywords) = 0 THEN <<>>
    ELSE IF Len(JobsWithInTitle(df, keywords[1])) > 0 THEN JobsWithInTitle(df, keywords[1])
    ELSE FirstKeywordJobs(df, Tail(keywords))

\* the role postings as stated: by the whole role, else by its first keyword
\* that matches
RoleJobsClaimed(df, target_role) ==
    IF Len(JobsWithInTitle(df, target_role)) > 0 THEN JobsWithInTitle(df, target_role)
    ELSE FirstKeywordJobs(df, SplitWords(target_role, <<>>))

\* C24: analyze_skill_gaps takes as role postings those whose title contains
\* target_role (case-insensitive), else those of the first whitespace-separated
\* keyword found in a title, else none, and returns a report on them in every
\* case.
C24_RolePostingsSelected ==
    Finished("analyze_skill_gaps") =>
        LET role_jobs == RoleJobsClaimed(jobs_df, call.target_role)
        IN  /\ pc = "returned"
            /\ ret = GapReport(call.target_role, role_jobs, call.user_skills,
                               python_build.set_order)

\* ---------------------------------------------------------------------------
\* one of the two tokens is inside the other
OneContainsOther(u, r) == Contains(r, u) \/ Contains(u, r)

\* both tokens have 3 characters or more and lengths at most 2 apart
CloseInLength(u, r) == Len(u) >= 3 /\ Len(r) >= 3 /\ Abs(Len(u) - Len(r)) <= 2

\* the required skill is held through the user skill, as stated
HeldThrough(u, r) == OneContainsOther(u, r) \/ CloseInLength(u, r)

\* the user skills of the call in progress, case-folded
UserSkillsFolded == Range(LowerAll(call.user_skills))

\* the report lists the required skill as held
ReportedHeld(r) == TitleCase(r) \in ret.existing_skills

\* C25: a required skill is reported as held if and only if some case-folded
\* user skill is a substring of it, contains it, or both have 3 characters or
\* more and lengths at most 2 apart; a user skill shorter than 3 characters
\* that is not inside the required skill does not make it held.
C25_HeldIffSimilar ==
    Returned("analyze_skill_gaps") =>
        LET required == RequiredSkills(RoleJobsOfCall)
            folded == UserSkillsFolded
        IN  \A r \in required :
                ReportedHeld(r) <=> \E u \in folded : HeldThrough(u, r)

\* C25 witness: one required skill is held through length alone, and a second
\* one, 3 characters shorter than the user's skill, is not held.
C25_Witness ==
    /\ Returned("analyze_skill_gaps")
    /\ LET required == RequiredSkills(RoleJobsOfCall)
           folded == UserSkillsFolded
       IN  /\ \E r \in required :
                  /\ ReportedHeld(r)
                  /\ \A u \in folded : ~OneContainsOther(u, r)
           /\ \E r \in required :
                  /\ ~ReportedHeld(r)
                  /\ \E u \in folded : Len(u) >= 3 /\ Len(r) >= 3

\* ---------------------------------------------------------------------------
\* how often the skill, case-folded, is mentioned by the role postings of the
\* call in progress
Demand(skill) == SkillCount(RoleJobsOfCall, Lower(skill))

\* the place of a lower-cased skill in the iteration order of the set
PlaceInSet(skill) ==
    CHOOSE k \in DOMAIN python_build.set_order : python_build.set_order[k] = skill

IntegerTokens(field) == IF IsNA(field) THEN <<>> ELSE FindNumbers(field, 1, FALSE)

\* the experience range as stated for fields with fewer than two tokens
ExperienceClaimedFor(tokens) ==
    IF Len(tokens) = 1 THEN <<Num(ParseInt(tokens[1])), Num(ParseInt(tokens[1]) + 2)>>
    ELSE <<Num(0), Num(2)>>

\* C27: after process_jobs, a posting whose experience field has exactly one
\* integer token v has (exp_min, exp_max) = (v, v + 2), and one whose field
\* has no integer token, a missing field included, has (0, 2).
C27_ExperienceParsed ==
    Returned("process_jobs") =>
        \A i \in Positions(ret) :
            LET tokens == IntegerTokens(call.jobs_data[i].experience)
            IN  Len(tokens) <= 1
                    => <<ret[i].exp_min, ret[i].exp_max>> = ExperienceClaimedFor(tokens)

\* ---------------------------------------------------------------------------
\* twice the average (exp_min + exp_max) / 2 lies in (lo, hi]; no comparison
\* with a NaN holds
TwiceAverageIn(row, lo, hi) ==
    /\ IsNum(row.exp_min) /\ IsNum(row.exp_max)
    /\ row.exp_min[1] + row.exp_max[1] > lo
    /\ row.exp_min[1] + row.exp_max[1] <= hi

\* the labels whose band, as stated, holds the average of the row's own
\* exp_min and exp_max: a <= 2, 2 < a <= 5, 5 < a <= 10, a > 10
BandsOfRow(row) ==
    {l \in {EntryLevel, MidLevel, SeniorLevel, ExpertLevel} :
        \/ l = EntryLevel /\ TwiceAverageIn(row, -1, 4)
        \/ l = MidLevel /\ TwiceAverageIn(row, 4, 10)
        \/ l = SeniorLevel /\ TwiceAverageIn(row, 10, 20)
        \/ l = ExpertLevel /\ TwiceAverageIn(row, 20, 2000)}

\* C28: every normalized posting carries the one experience_level label whose
\* band holds the average of its own exp_min and exp_max.
C28_LabelOfOwnAverage ==
    Returned("process_jobs") =>
        \A i \in Positions(ret) : BandsOfRow(ret[i]) = {ret[i].experience_level}

C30_OwnLabelPassesFilter ==
    Returned("_apply_filters") =>
        \A i \in Positions(caller_df) :
            caller_df[i].experience_level = call.experience_level
                => \E j \in Positions(ret) : ret[j] = caller_df[i]

====
